---- MODULE Spec2Model ----
(***************************************************************************)
(* Bundle packaging and integrity engine of ANKR Interact                  *)
(* (src/src/bundles/bundle-lib.ts): packBundle, unpackBundle,              *)
(* validateBundle, diffBundles, bumpBundleVersion and the semver helpers.  *)
(*                                                                         *)
(* The library is stateless; the state of the model is the set of buffers  *)
(* a caller holds (an archive, a second archive derived from it) together  *)
(* with the value returned by the last call of each operation.             *)
(*                                                                         *)
(* Conventions                                                             *)
(*   - a path is <<dir, name>>, standing for dir/name ("" = top level);    *)
(*     p.startsWith('docs/') is p[1] = "docs";                             *)
(*   - an optional value is <<>> (undefined / key absent) or <<v>>;        *)
(*   - a JS object whose key order matters is a sequence of <<key, value>> *)
(*     pairs in insertion order;                                           *)
(*   - a version string is the sequence of its tokens: a maximal run of    *)
(*     decimal digits is its number (>= 0), any other character a negative *)
(*     code (Dot, CharV, CharX);                                           *)
(*   - sha256 and hmac are injective up to what the algorithms themselves  *)
(*     identify (HMAC zero-pads its key).                                  *)
(***************************************************************************)
EXTENDS Integers, Sequences, FiniteSets, TLC

\* ------------------------------------------------------------------ bounds
MaxFiles == 2      \* longest input file list handed to packBundle
MaxClock == 1      \* number of clock ticks (distinct values of new Date())
MaxQueue == 2      \* number of mutations ever enqueued on the device
MaxCalls == 2      \* number of calls of sync() that can be in progress at once

\* --------------------------------------------------------- generic helpers
Range(s) == { s[i] : i \in 1..Len(s) }

Some(v) == <<v>>
None    == <<>>

RECURSIVE SeqsUpTo(_, _)
\* all sequences over S of length <= n
SeqsUpTo(S, n) ==
  IF n = 0 THEN { <<>> }
  ELSE LET shorter == SeqsUpTo(S, n - 1)
       IN  shorter \cup { Append(s, x) : s \in { t \in shorter : Len(t) = n - 1 }, x \in S }

\* JS object (insertion-ordered key/value pairs): obj[key] = value
RECURSIVE ObjSet(_, _, _)
ObjSet(obj, key, value) ==
  IF obj = <<>> THEN << <<key, value>> >>
  ELSE IF Head(obj)[1] = key THEN << <<key, value>> >> \o Tail(obj)
  ELSE << Head(obj) >> \o ObjSet(Tail(obj), key, value)

ObjKeys(obj) == [ i \in 1..Len(obj) |-> obj[i][1] ]
ObjHas(obj, key) == \E i \in 1..Len(obj) : obj[i][1] = key
ObjGet(obj, key) == obj[CHOOSE i \in 1..Len(obj) : obj[i][1] = key][2]

\* ------------------------------------------------------------------ paths
ManifestPath == <<"", "manifest.json">>
StartsWith(p, dir) == p[1] = dir

\* ---------------------------------------------------------------- helpers
\* Buffer.from(content, 'utf-8') on a string given by its code points
RECURSIVE Utf8(_)
Utf8(cps) ==
  IF cps = <<>> THEN <<>>
  ELSE LET c == Head(cps)
       IN  (IF c < 128 THEN <<c>> ELSE <<192 + (c \div 64), 128 + (c % 64)>>) \o Utf8(Tail(cps))

\* a BundleFile content is a Buffer (bytes) or a string (code points < 2048)
bufferOf(content) == IF content.isBuffer THEN content.data ELSE Utf8(content.data)

sha256(data) == <<"sha256", data>>

\* HMAC pads a key shorter than the block size with zero bytes, so keys that
\* differ only in trailing NUL characters give the same MAC
RECURSIVE PadKey(_)
PadKey(key) ==
  IF key # <<>> /\ key[Len(key)] = 0 THEN PadKey(SubSeq(key, 1, Len(key) - 1)) ELSE key

hmac(data, key) == <<"hmac-sha256", data, PadKey(key)>>

\* a key argument is an optional string (sequence of character codes);
\* JS truthiness: undefined and '' are falsy
Truthy(optKey) == optKey # None /\ optKey[1] # <<>>

\* -------------------------------------------------------- character data
UpperCase == <<"A","B","C","D","E","F","G","H","I","J","K","L","M",
               "N","O","P","Q","R","S","T","U","V","W","X","Y","Z">>
LowerCase == <<"a","b","c","d","e","f","g","h","i","j","k","l","m",
               "n","o","p","q","r","s","t","u","v","w","x","y","z">>
Digits == {"0","1","2","3","4","5","6","7","8","9"}

\* String.prototype.toLowerCase on one character
toLowerCase(c) ==
  IF \E i \in 1..26 : UpperCase[i] = c
  THEN LowerCase[CHOOSE i \in 1..26 : UpperCase[i] = c]
  ELSE c

\* [a-z0-9]
IsSlugAlnum(c) == c \in Range(LowerCase) \cup Digits

RECURSIVE CollapseRuns(_, _)
\* .replace(/[^a-z0-9]+/g, '-'): every maximal run of other characters -> '-'
CollapseRuns(chars, inRun) ==
  IF chars = <<>> THEN <<>>
  ELSE IF IsSlugAlnum(Head(chars)) THEN <<Head(chars)>> \o CollapseRuns(Tail(chars), FALSE)
  ELSE IF inRun THEN CollapseRuns(Tail(chars), TRUE)
  ELSE <<"-">> \o CollapseRuns(Tail(chars), TRUE)

\* .replace(/^-|-$/g, ''): one leading and one trailing '-'
StripDashes(chars) ==
  LET s1 == IF chars # <<>> /\ Head(chars) = "-" THEN Tail(chars) ELSE chars
  IN  IF s1 # <<>> /\ s1[Len(s1)] = "-" THEN SubSeq(s1, 1, Len(s1) - 1) ELSE s1

toSlug(name) ==
  StripDashes(CollapseRuns([ i \in 1..Len(name) |-> toLowerCase(name[i]) ], FALSE))

\* ------------------------------------------------------- version strings
Dot   == 0 - 1     \* '.'
CharV == 0 - 2     \* 'v'
CharX == 0 - 3     \* 'x'

\* /^\d+\.\d+\.\d+/, the pattern without its end anchor
SemverPrefixPattern(v) ==
  /\ Len(v) >= 5
  /\ v[1] >= 0 /\ v[2] = Dot /\ v[3] >= 0 /\ v[4] = Dot /\ v[5] >= 0

\* /^\d+\.\d+\.\d+$/
SemverPattern(v) ==
  /\ Len(v) = 5
  /\ v[1] >= 0 /\ v[2] = Dot /\ v[3] >= 0 /\ v[4] = Dot /\ v[5] >= 0

\* the text of a well-formed version, for embedding in a message
VersionText(v) == ToString(v[1]) \o "." \o ToString(v[3]) \o "." \o ToString(v[5])

\* --------------------------------------------------------- manifest schema
Uuids == { "3f2b8c1e-7a4d-4e9b-9c1f-0a1b2c3d4e5f",
           "a0a0a0a0-1111-4222-8333-444444444444" }

\* /^bundle_[0-9a-f-]{36}$/ over the identifiers the model builds: the
\* prefix once, followed by 36 characters of [0-9a-f-]
IdPattern(id) == \E u \in Uuids : id = "bundle_" \o u

\* z.string().email() / z.string().url() over the values the model uses
Emails == { "asha@example.org" }
Urls   == { "https://example.org" }

\* z.string().datetime(): timestamps are clock readings (toISOString of an
\* instant); a negative number stands for a string that is not ISO-8601
IsDatetime(t) == t >= 0

AccessTiers == { "public", "free", "premium", "private" }

\* BundleAuthorSchema: key order of the schema shape
AuthorShape == <<"name", "email", "url">>

AuthorViolations(author) ==
  { k \in {"name"} : ~ObjHas(author, k) \/ Len(ObjGet(author, k)) < 1 \/ Len(ObjGet(author, k)) > 200 }
  \cup { k \in {"email"} : ObjHas(author, k) /\ ObjGet(author, k) \notin Emails }
  \cup { k \in {"url"} : ObjHas(author, k) /\ ObjGet(author, k) \notin Urls }

\* z.object(...) output: the shape's keys in shape order, unknown keys stripped
ParseAuthor(author) ==
  LET present == SelectSeq(AuthorShape, LAMBDA k : ObjHas(author, k))
  IN  [ i \in 1..Len(present) |-> <<present[i], ObjGet(author, present[i])>> ]

IntegrityViolations(integrity) ==
  { k \in {"algorithm"} : integrity.algorithm # "sha256" }

SignatureViolations(signature) ==
  IF signature = None THEN {}
  ELSE { k \in {"algorithm"} : signature[1].algorithm # "hmac-sha256" }
       \cup { k \in {"signed_at"} : ~IsDatetime(signature[1].signed_at) }

\* the names of the top-level fields that violate BundleManifestSchema
SchemaViolations(m) ==
     { f \in {"spec"} : m.spec # "1.0" }
  \cup { f \in {"id"} : ~IdPattern(m.id) }
  \cup { f \in {"name"} : Len(m.name) < 1 \/ Len(m.name) > 200 }
  \cup { f \in {"slug"} : Len(m.slug) < 1 \/ \E i \in 1..Len(m.slug) : ~(IsSlugAlnum(m.slug[i]) \/ m.slug[i] = "-") }
  \cup { f \in {"version"} : ~SemverPattern(m.version) }
  \cup { f \in {"description"} : Len(m.description) > 2000 }
  \cup { f \in {"author"} : AuthorViolations(m.author) # {} }
  \cup { f \in {"created_at"} : ~IsDatetime(m.created_at) }
  \cup { f \in {"updated_at"} : ~IsDatetime(m.updated_at) }
  \cup { f \in {"language"} : Len(m.language) < 2 \/ Len(m.language) > 10 }
  \cup { f \in {"tags"} : m.tags # None /\ (Len(m.tags[1]) > 20 \/ \E i \in 1..Len(m.tags[1]) : Len(m.tags[1][i]) > 50) }
  \cup { f \in {"access"} : m.access \notin AccessTiers }
  \cup { f \in {"price"} : m.price # None /\ m.price[1] < 0 }
  \cup { f \in {"currency"} : m.currency # None /\ Len(m.currency[1]) # 3 }
  \cup { f \in {"license"} : Len(m.license) < 1 }
  \cup { f \in {"integrity"} : IntegrityViolations(m.integrity) # {} }
  \cup { f \in {"signature"} : SignatureViolations(m.signature) # {} }

\* BundleManifestSchema.parse succeeds
SchemaOk(m) == SchemaViolations(m) = {}

\* the value BundleManifestSchema.parse returns for a manifest that passes
BundleManifestSchemaParse(m) == [ m EXCEPT !.author = ParseAuthor(m.author) ]

\* -------------------------------------------------------- JSON.stringify
\* top-level fields in the order packBundle inserts them (which is also the
\* order of the schema shape)
FieldOrder == << "spec", "id", "name", "slug", "version", "description", "author",
                 "created_at", "updated_at", "language", "languages", "subject",
                 "level", "tags", "access", "price", "currency", "license",
                 "ankr_interact_version", "entry", "contents", "integrity", "signature" >>

OptionalFields == { "languages", "subject", "level", "tags", "price", "currency",
                    "entry", "signature" }

\* JSON.stringify of an object: its keys in insertion order, a key whose
\* value is undefined left out
JSONstringify(obj) ==
  LET defined == SelectSeq(FieldOrder, LAMBDA f : ~(f \in OptionalFields /\ obj[f] = None))
  IN  [ i \in 1..Len(defined) |-> <<defined[i], obj[defined[i]]>> ]

\* { ...manifest, integrity: { ...manifest.integrity, manifest_hash: undefined } }
\* as JSON.stringify sees it: integrity without the manifest_hash key
WithoutManifestHash(m) ==
  [ m EXCEPT !.integrity = [ algorithm |-> m.integrity.algorithm, files |-> m.integrity.files ] ]

\* ------------------------------------------------------------ packBundle
\* a BundleFile is [path, content], content = [isBuffer, data]
\* PackOptions is [manifest (the draft), files, signKey, interactVersion];
\* in the draft '' / <<>> stand for a falsy (absent or empty) string

\* opts.files.filter(f => f.path.startsWith(dir + '/')).map(f => f.path)
PathsUnder(files, dir) ==
  LET sel == SelectSeq(files, LAMBDA f : StartsWith(f.path, dir))
  IN  [ i \in 1..Len(sel) |-> sel[i].path ]

RECURSIVE HashAllFiles(_, _)
\* the loop over opts.files: fileHashes[f.path] = sha256(buf); zip.file(f.path, buf)
HashAllFiles(files, acc) ==
  IF files = <<>> THEN acc
  ELSE LET f   == Head(files)
           buf == bufferOf(f.content)
       IN  HashAllFiles(Tail(files),
                        [ fileHashes |-> ObjSet(acc.fileHashes, f.path, sha256(buf)),
                          zip        |-> ObjSet(acc.zip, f.path, buf) ])

DefaultVersion == <<1, Dot, 0, Dot, 0>>

\* the identifier packBundle gives the manifest
PackId(draftId, uuid) ==
  IF draftId # None /\ draftId[1] # "" THEN "bundle_" \o draftId[1] ELSE "bundle_" \o uuid

\* An archive (the bytes of a .ib file) is
\*   [zipOk, manifest, files, length]: whether JSZip can open it, the
\*   manifest.json entry (None if absent; else whether it is JSON text and
\*   the JSON value), the other file entries, path -> bytes, in archive
\*   order, and buffer.length.

RECURSIVE BufferLength(_)
\* buffer.length of a generated archive: at least the stored bytes and one
\* more for the manifest entry (headers and compression are not modelled)
BufferLength(entries) ==
  IF entries = <<>> THEN 1 ELSE Len(Head(entries)[2]) + BufferLength(Tail(entries))

packBundle(opts, now, uuid) ==
  LET d      == opts.manifest
      hashed == HashAllFiles(opts.files, [ fileHashes |-> <<>>, zip |-> <<>> ])
      manifestWithoutHash ==
        [ spec        |-> "1.0",
          id          |-> PackId(d.id, uuid),
          name        |-> d.name,
          slug        |-> IF d.slug # <<>> THEN d.slug ELSE toSlug(d.name),
          version     |-> IF d.version # <<>> THEN d.version ELSE DefaultVersion,
          description |-> d.description,
          author      |-> d.author,
          created_at  |-> now,
          updated_at  |-> now,
          language    |-> IF d.language # "" THEN d.language ELSE "en",
          languages   |-> d.languages,
          subject     |-> d.subject,
          level       |-> d.level,
          tags        |-> d.tags,
          access      |-> IF d.access # "" THEN d.access ELSE "public",
          price       |-> d.price,
          currency    |-> d.currency,
          license     |-> IF d.license # "" THEN d.license ELSE "Apache-2.0",
          ankr_interact_version |-> IF opts.interactVersion # "" THEN opts.interactVersion ELSE "1.0.0",
          entry       |-> d.entry,
          contents    |-> [ docs       |-> PathsUnder(opts.files, "docs"),
                            assets     |-> PathsUnder(opts.files, "assets"),
                            quizzes    |-> PathsUnder(opts.files, "quizzes"),
                            flashcards |-> PathsUnder(opts.files, "flashcards"),
                            courses    |-> PathsUnder(opts.files, "courses"),
                            canvas     |-> PathsUnder(opts.files, "canvas") ],
          integrity   |-> [ algorithm |-> "sha256", files |-> hashed.fileHashes,
                            manifest_hash |-> sha256(<<>>) ],
          signature   |-> None ]
      manifestHash  == sha256(JSONstringify(WithoutManifestHash(manifestWithoutHash)))
      withHash      == [ manifestWithoutHash EXCEPT !.integrity.manifest_hash = manifestHash ]
      finalManifest ==
        IF Truthy(opts.signKey)
        THEN [ withHash EXCEPT !.signature =
                 Some([ algorithm |-> "hmac-sha256",
                        value     |-> hmac(manifestHash, opts.signKey[1]),
                        signed_at |-> now ]) ]
        ELSE withHash
      stored == SelectSeq(hashed.zip, LAMBDA e : e[1] # ManifestPath)
  IN  [ zipOk    |-> TRUE,
        manifest |-> Some([ jsonOk |-> TRUE, json |-> finalManifest ]),
        \* zip.file('manifest.json', ...) replaces an input stored at that path
        files    |-> stored,
        length   |-> BufferLength(stored) ]

\* ---------------------------------------------------------- unpackBundle
\* the bytes of the manifest.json entry as a file: JSON text, which opens
\* with "{\n"; no input content of the model does
ManifestEntryBytes == <<123, 10>>

\* zip.file(path): the entry at that path, if any
ZipHas(buffer, path) ==
  IF path = ManifestPath THEN buffer.manifest # None ELSE ObjHas(buffer.files, path)

\* zipEntry.async('nodebuffer')
ZipBytes(buffer, path) ==
  IF path = ManifestPath THEN ManifestEntryBytes ELSE ObjGet(buffer.files, path)

\* the returned { manifest, files }, or the error thrown
unpackBundle(buffer) ==
  IF ~buffer.zipOk
    THEN [ threw |-> Some("JSZip: not a zip file"), manifest |-> None, files |-> <<>> ]
  ELSE IF buffer.manifest = None
    THEN [ threw |-> Some("BUNDLE_INVALID: missing manifest.json"), manifest |-> None, files |-> <<>> ]
  ELSE IF ~buffer.manifest[1].jsonOk
    THEN [ threw |-> Some("SyntaxError"), manifest |-> None, files |-> <<>> ]
  ELSE IF ~SchemaOk(buffer.manifest[1].json)
    THEN [ threw |-> Some("ZodError"), manifest |-> None, files |-> <<>> ]
  ELSE [ threw    |-> None,
         manifest |-> Some(BundleManifestSchemaParse(buffer.manifest[1].json)),
         files    |-> [ i \in 1..Len(buffer.files) |->
                          [ path    |-> buffer.files[i][1],
                            content |-> [ isBuffer |-> TRUE, data |-> buffer.files[i][2] ] ] ] ]

\* -------------------------------------------------------- validateBundle
\* an entry of errors[] / warnings[]: the message and the path it names
Finding(msg, path) == [ msg |-> msg, path |-> path ]

LargeBundleBytes == 100 * 1024 * 1024

RECURSIVE CheckFileIntegrityUntilFirst(_, _)
\* a loop over integrity.files that stops at the first finding
CheckFileIntegrityUntilFirst(entries, buffer) ==
  IF entries = <<>> THEN <<>>
  ELSE LET filePath     == Head(entries)[1]
           expectedHash == Head(entries)[2]
       IN  IF ~ZipHas(buffer, filePath)
             THEN << Finding("Missing file", Some(filePath)) >>
           ELSE IF sha256(ZipBytes(buffer, filePath)) # expectedHash
             THEN << Finding("Integrity failure", Some(filePath)) >>
           ELSE CheckFileIntegrityUntilFirst(Tail(entries), buffer)

RECURSIVE CheckFileIntegrity(_, _)
\* the loop over Object.entries(manifest.integrity.files)
CheckFileIntegrity(entries, buffer) ==
  IF entries = <<>> THEN <<>>
  ELSE LET filePath     == Head(entries)[1]
           expectedHash == Head(entries)[2]
           found ==
             IF ~ZipHas(buffer, filePath)
               THEN << Finding("Missing file", Some(filePath)) >>
             ELSE IF sha256(ZipBytes(buffer, filePath)) # expectedHash
               THEN << Finding("Integrity failure", Some(filePath)) >>
             ELSE <<>>
       IN  found \o CheckFileIntegrity(Tail(entries), buffer)

\* a recomputation that takes the stored hash on trust
StoredManifestHash(manifest) == manifest.integrity.manifest_hash

\* the manifest hash validateBundle recomputes
ExpectedManifestHash(manifest) ==
  sha256(JSONstringify([ WithoutManifestHash(manifest) EXCEPT !.signature = None ]))

CheckManifestHash(manifest) ==
  IF ExpectedManifestHash(manifest) # manifest.integrity.manifest_hash
  THEN << Finding("Manifest hash mismatch", None) >>
  ELSE <<>>

CheckSignature(manifest, signKey) ==
  IF Truthy(signKey) /\ manifest.signature # None
  THEN IF hmac(manifest.integrity.manifest_hash, signKey[1]) # manifest.signature[1].value
       THEN [ errors |-> << Finding("Signature verification failed", None) >>, warnings |-> <<>> ]
       ELSE [ errors |-> <<>>, warnings |-> <<>> ]
  ELSE IF manifest.signature # None /\ ~Truthy(signKey)
  THEN [ errors |-> <<>>, warnings |-> << Finding("Bundle is signed but no verify key provided", None) >> ]
  ELSE [ errors |-> <<>>, warnings |-> <<>> ]

CheckSize(buffer) ==
  IF buffer.length > LargeBundleBytes THEN << Finding("Large bundle", None) >> ELSE <<>>

CheckEntry(manifest, buffer) ==
  IF manifest.entry # None /\ manifest.entry[1] # <<"", "">> /\ ~ZipHas(buffer, manifest.entry[1])
  THEN << Finding("Entry point not found in bundle", manifest.entry) >>
  ELSE <<>>

\* an early return that sets valid = false and reports nothing
FatalSilently(msg) ==
  [ valid |-> FALSE, errors |-> <<>>, warnings |-> <<>>, manifest |-> None ]

Fatal(msg) ==
  [ valid |-> FALSE, errors |-> << Finding(msg, None) >>, warnings |-> <<>>, manifest |-> None ]

\* a validateBundle that records a schema violation and carries on with the
\* later checks on the manifest as stored
validateBundleCarryingOn(buffer, signKey) ==
  IF ~buffer.zipOk THEN Fatal("Not a valid ZIP file")
  ELSE IF buffer.manifest = None THEN Fatal("Missing manifest.json")
  ELSE IF ~buffer.manifest[1].jsonOk THEN Fatal("Invalid manifest")
  ELSE LET manifest == buffer.manifest[1].json
           sig      == CheckSignature(manifest, signKey)
           errors   == ( IF SchemaOk(manifest) THEN <<>>
                         ELSE << Finding("Invalid manifest", None) >> )
                       \o CheckFileIntegrity(manifest.integrity.files, buffer)
                       \o CheckManifestHash(manifest)
                       \o sig.errors
           warnings == sig.warnings \o CheckSize(buffer) \o CheckEntry(manifest, buffer)
       IN  [ valid    |-> errors = <<>>,
             errors   |-> errors,
             warnings |-> warnings,
             manifest |-> IF errors = <<>> THEN Some(manifest) ELSE None ]

validateBundle(buffer, signKey) ==
  IF ~buffer.zipOk THEN Fatal("Not a valid ZIP file")
  ELSE IF buffer.manifest = None THEN Fatal("Missing manifest.json")
  ELSE IF ~buffer.manifest[1].jsonOk \/ ~SchemaOk(buffer.manifest[1].json) THEN Fatal("Invalid manifest")
  ELSE LET manifest == BundleManifestSchemaParse(buffer.manifest[1].json)
           sig      == CheckSignature(manifest, signKey)
           errors   == CheckFileIntegrity(manifest.integrity.files, buffer)
                       \o CheckManifestHash(manifest)
                       \o sig.errors
           warnings == sig.warnings \o CheckSize(buffer) \o CheckEntry(manifest, buffer)
       IN  [ valid    |-> errors = <<>>,
             errors   |-> errors,
             warnings |-> warnings,
             manifest |-> IF errors = <<>> THEN Some(manifest) ELSE None ]

\* ------------------------------------------------------------ versioning
BumpTypes == { "major", "minor", "patch" }

\* A run of decimal digits is written as the number it denotes. The numbers
\* around 2^53 do not fit the integers of the checker: 2^53 + k is written
\* TwoTo53 + k, for small k of either sign, and no number between the small
\* ones and those is an input.
TwoTo53 == 1000000

\* the double nearest to an integer (ties to the even mantissa): below 2^53
\* every integer is a double, from 2^53 to 2^54 every second one
ToDouble(n) ==
  IF n <= TwoTo53 THEN n
  ELSE LET k == n - TwoTo53
       IN  IF k % 2 = 0 THEN n
           ELSE IF (k + 1) % 4 = 0 THEN n + 1
           ELSE n - 1

\* parseInt(digits, 10)
parseInt(digits) == ToDouble(digits)

\* x + 1 on doubles
PlusOne(x) == ToDouble(x + 1)

\* [major, minor, patch], or None where the code throws 'Invalid semver'
parseSemver(version) ==
  IF SemverPattern(version)
  THEN Some(<<parseInt(version[1]), parseInt(version[3]), parseInt(version[5])>>)
  ELSE None

\* the new version string, or None where parseSemver throws
bumpVersion(version, bump) ==
  LET parsed == parseSemver(version)
  IN  IF parsed = None THEN None
      ELSE LET major == parsed[1][1]
               minor == parsed[1][2]
               patch == parsed[1][3]
           IN  IF bump = "major" THEN Some(<<PlusOne(major), Dot, 0, Dot, 0>>)
               ELSE IF bump = "minor" THEN Some(<<major, Dot, PlusOne(minor), Dot, 0>>)
               ELSE Some(<<major, Dot, minor, Dot, PlusOne(patch)>>)

\* -1, 0 or 1, or None where parseSemver throws
compareSemver(a, b) ==
  LET pa == parseSemver(a)
      pb == parseSemver(b)
  IN  IF pa = None \/ pb = None THEN None
      ELSE IF pa[1][1] # pb[1][1] THEN Some(IF pa[1][1] < pb[1][1] THEN 0 - 1 ELSE 1)
      ELSE IF pa[1][2] # pb[1][2] THEN Some(IF pa[1][2] < pb[1][2] THEN 0 - 1 ELSE 1)
      ELSE IF pa[1][3] # pb[1][3] THEN Some(IF pa[1][3] < pb[1][3] THEN 0 - 1 ELSE 1)
      ELSE Some(0)

\* ----------------------------------------------------------- diffBundles
\* new Map(files.map(f => [f.path, sha256(bufferOf(f.content))]))
RECURSIVE HashMap(_)
HashMap(files) ==
  IF files = <<>> THEN <<>>
  ELSE ObjSet(HashMap(SubSeq(files, 1, Len(files) - 1)),
              files[Len(files)].path, sha256(bufferOf(files[Len(files)].content)))

\* a path list that keeps every occurrence
EveryOccurrence(items) == items

\* new Set(items) as the sequence of its elements in insertion order: an item
\* stays where it first occurs
SetOfSeq(items) ==
  LET first == { i \in 1..Len(items) : \A j \in 1..(i - 1) : items[j] # items[i] }
  IN  [ k \in 1..Cardinality(first) |->
          items[CHOOSE i \in first : Cardinality({ j \in first : j < i }) = k - 1] ]

\* map.get(p): the value, or undefined
MapGet(map, p) == IF ObjHas(map, p) THEN Some(ObjGet(map, p)) ELSE None

\* a loop that never compares the two hashes of a path found on both sides
FileDiffByPresence(p, oldHashes, newHashes) ==
  [ path    |-> p,
    change  |-> IF ~ObjHas(oldHashes, p) THEN "added"
                ELSE IF ~ObjHas(newHashes, p) THEN "removed" ELSE "modified",
    oldHash |-> MapGet(oldHashes, p),
    newHash |-> MapGet(newHashes, p) ]

\* the record the loop over allPaths pushes for path p
FileDiff(p, oldHashes, newHashes) ==
  LET oldHash == MapGet(oldHashes, p)
      newHash == MapGet(newHashes, p)
  IN  IF oldHash = None
        THEN [ path |-> p, change |-> "added", oldHash |-> None, newHash |-> newHash ]
      ELSE IF newHash = None
        THEN [ path |-> p, change |-> "removed", oldHash |-> oldHash, newHash |-> None ]
      ELSE IF oldHash # newHash
        THEN [ path |-> p, change |-> "modified", oldHash |-> oldHash, newHash |-> newHash ]
      ELSE [ path |-> p, change |-> "unchanged", oldHash |-> oldHash, newHash |-> newHash ]

\* a content test that knows documents only
isDocPath(p) == StartsWith(p, "docs")

isContentPath(p) ==
  \/ StartsWith(p, "docs")
  \/ StartsWith(p, "quizzes")
  \/ StartsWith(p, "flashcards")
  \/ StartsWith(p, "courses")

InferBumpLevel(files) ==
  IF \E i \in 1..Len(files) : files[i].change = "removed" /\ isContentPath(files[i].path)
    THEN "major"
  ELSE IF \E i \in 1..Len(files) :
            files[i].change \in {"added", "modified"} /\ isContentPath(files[i].path)
    THEN "minor"
  ELSE "patch"

\* a skip list without the identifier and the signature
SkipTimestampsAndIntegrity == { "integrity", "updated_at", "created_at" }

SKIP_FIELDS == { "integrity", "signature", "updated_at", "created_at", "id" }

\* Object.keys of a parsed manifest: the fields that are present
ManifestKeys(m) == SelectSeq(FieldOrder, LAMBDA f : ~(f \in OptionalFields /\ m[f] = None))

\* (manifest as Record<string, unknown>)[field]: the value, or undefined
FieldValue(m, field) == IF field \in OptionalFields THEN m[field] ELSE Some(m[field])

ManifestChanges(oldManifest, newManifest) ==
  LET allFields == SetOfSeq(ManifestKeys(oldManifest) \o ManifestKeys(newManifest))
      changed   == SelectSeq(allFields, LAMBDA field :
                     /\ field \notin SKIP_FIELDS
                     /\ FieldValue(oldManifest, field) # FieldValue(newManifest, field))
  IN  [ i \in 1..Len(changed) |->
          [ field |-> changed[i],
            from  |-> FieldValue(oldManifest, changed[i]),
            to    |-> FieldValue(newManifest, changed[i]) ] ]

CountOf(files, change) == Cardinality({ i \in 1..Len(files) : files[i].change = change })

NoDiff ==
  [ fromVersion |-> <<>>, toVersion |-> <<>>, bumpLevel |-> "", added |-> 0, removed |-> 0,
    modified |-> 0, unchanged |-> 0, files |-> <<>>, manifestChanges |-> <<>> ]

\* the BundleDiff returned, or the error thrown by either unpackBundle
diffBundles(oldBuffer, newBuffer) ==
  LET oldUnpacked == unpackBundle(oldBuffer)
      newUnpacked == unpackBundle(newBuffer)
  IN  IF oldUnpacked.threw # None THEN [ threw |-> oldUnpacked.threw, diff |-> NoDiff ]
      ELSE IF newUnpacked.threw # None THEN [ threw |-> newUnpacked.threw, diff |-> NoDiff ]
      ELSE
        LET oldManifest == oldUnpacked.manifest[1]
            newManifest == newUnpacked.manifest[1]
            oldHashes   == HashMap(oldUnpacked.files)
            newHashes   == HashMap(newUnpacked.files)
            allPaths    == SetOfSeq(ObjKeys(oldHashes) \o ObjKeys(newHashes))
            files       == [ i \in 1..Len(allPaths) |-> FileDiff(allPaths[i], oldHashes, newHashes) ]
        IN  [ threw |-> None,
              diff  |-> [ fromVersion     |-> oldManifest.version,
                          toVersion       |-> newManifest.version,
                          bumpLevel       |-> InferBumpLevel(files),
                          added           |-> CountOf(files, "added"),
                          removed         |-> CountOf(files, "removed"),
                          modified        |-> CountOf(files, "modified"),
                          unchanged       |-> CountOf(files, "unchanged"),
                          files           |-> files,
                          manifestChanges |-> ManifestChanges(oldManifest, newManifest) ] ]

\* ----------------------------------------------------- bumpBundleVersion
\* a parsed manifest passed as the draft of packBundle ({ ...manifest, ... })
AsDraft(manifest) ==
  [ id          |-> Some(manifest.id),
    name        |-> manifest.name,
    slug        |-> manifest.slug,
    version     |-> manifest.version,
    description |-> manifest.description,
    author      |-> manifest.author,
    language    |-> manifest.language,
    languages   |-> manifest.languages,
    subject     |-> manifest.subject,
    level       |-> manifest.level,
    tags        |-> manifest.tags,
    access      |-> manifest.access,
    price       |-> manifest.price,
    currency    |-> manifest.currency,
    license     |-> manifest.license,
    entry       |-> manifest.entry ]

\* `${manifest.description}\n\n[v${newVersion}] ${changelog}`.trim(), for a
\* description and a changelog without surrounding white space
WithChangelog(description, newVersion, changelog) ==
  IF description = ""
  THEN "[v" \o VersionText(newVersion) \o "] " \o changelog
  ELSE description \o "\n\n[v" \o VersionText(newVersion) \o "] " \o changelog

\* the new buffer, or the error thrown by unpackBundle
bumpBundleVersion(buffer, bump, changelog, signKey, now, uuid) ==
  LET unpacked == unpackBundle(buffer)
  IN  IF unpacked.threw # None THEN [ threw |-> unpacked.threw, buffer |-> buffer ]
      ELSE
        LET manifest   == unpacked.manifest[1]
            newVersion == bumpVersion(manifest.version, bump)[1]
            updatedManifest ==
              [ AsDraft(manifest) EXCEPT
                  !.version     = newVersion,
                  !.description = IF changelog # ""
                                  THEN WithChangelog(manifest.description, newVersion, changelog)
                                  ELSE manifest.description ]
        IN  [ threw  |-> None,
              buffer |-> packBundle([ manifest        |-> updatedManifest,
                                      files           |-> unpacked.files,
                                      signKey         |-> signKey,
                                      interactVersion |-> manifest.ankr_interact_version ],
                                    now, uuid) ]

\* ------------------------------------------------------------- signBundle
\* the new buffer, or the error thrown by unpackBundle; packBundle reads the
\* draft fields of signedManifest and computes the signature block itself
signBundle(buffer, signKey, now, uuid) ==
  LET unpacked == unpackBundle(buffer)
  IN  IF unpacked.threw # None THEN [ threw |-> unpacked.threw, buffer |-> buffer ]
      ELSE
        LET manifest == unpacked.manifest[1]
        IN  [ threw  |-> None,
              buffer |-> packBundle([ manifest        |-> AsDraft(manifest),
                                      files           |-> unpacked.files,
                                      signKey         |-> Some(signKey),
                                      interactVersion |-> manifest.ankr_interact_version ],
                                    now, uuid) ]

\* ------------------------------------------------------------------ inputs
DocPath    == <<"docs", "ch1.md">>
DeckPath   == <<"flashcards", "deck.json">>
QuizPath   == <<"quizzes", "q1.json">>
CoursePath == <<"courses", "c1.json">>
AssetPath  == <<"assets", "logo.png">>
CanvasPath == <<"canvas", "board.excalidraw">>
GhostPath  == <<"docs", "missing.md">>     \* never among the input files

BufA == [ isBuffer |-> TRUE,  data |-> <<65>> ]        \* Buffer 'A'
BufE == [ isBuffer |-> TRUE,  data |-> <<195, 169>> ]  \* Buffer c3 a9
StrE == [ isBuffer |-> FALSE, data |-> <<233>> ]       \* the string 'é'

FilesOver(paths, contents) == [ path : paths, content : contents ]
FileLists(paths, contents) == SeqsUpTo(FilesOver(paths, contents), MaxFiles)

Uuid1 == "3f2b8c1e-7a4d-4e9b-9c1f-0a1b2c3d4e5f"

KeyK    == <<107>>        \* 'k'
KeyKNul == <<107, 0>>     \* 'k\0'
KeyJ    == <<106>>        \* 'j'

MinimalDraft ==
  [ id          |-> None,
    name        |-> <<"M", "y", " ", "B", "u", "n", "d", "l", "e">>,
    slug        |-> <<"m", "y", "-", "b", "u", "n", "d", "l", "e">>,
    version     |-> <<1, Dot, 2, Dot, 3>>,
    description |-> "Intro",
    author      |-> << <<"name", "Asha">> >>,
    language    |-> "en",
    languages   |-> None,
    subject     |-> None,
    level       |-> None,
    tags        |-> None,
    access      |-> "free",
    price       |-> None,
    currency    |-> None,
    license     |-> "MIT",
    entry       |-> None ]

\* drafts that differ from the minimal one in the identifier
IdDrafts ==
  { [ MinimalDraft EXCEPT !.id = None ],
    [ MinimalDraft EXCEPT !.id = Some("") ],
    [ MinimalDraft EXCEPT !.id = Some(Uuid1) ],
    [ MinimalDraft EXCEPT !.id = Some("bundle_" \o Uuid1) ] }

\* ... in the author object (key order, an optional key, an unknown key)
AuthorDrafts ==
  { [ MinimalDraft EXCEPT !.author = << <<"name", "Asha">>, <<"email", "asha@example.org">> >> ],
    [ MinimalDraft EXCEPT !.author = << <<"email", "asha@example.org">>, <<"name", "Asha">> >> ],
    [ MinimalDraft EXCEPT !.author = << <<"name", "Asha">>, <<"handle", "@asha">> >> ] }

\* ... in the entry point
EntryDrafts ==
  { [ MinimalDraft EXCEPT !.entry = Some(DocPath) ],
    [ MinimalDraft EXCEPT !.entry = Some(GhostPath) ] }

\* ... in leaving every defaulted field empty, or setting every optional one
OtherDrafts ==
  { [ MinimalDraft EXCEPT !.slug = <<>>, !.version = <<>>, !.description = "",
                          !.language = "", !.access = "", !.license = "" ],
    [ MinimalDraft EXCEPT !.languages = Some(<<"en", "hi">>), !.subject = Some("Maths"),
                          !.level = Some("beginner"), !.tags = Some(<<"algebra">>),
                          !.price = Some(0), !.currency = Some("INR") ] }

Drafts == IdDrafts \cup AuthorDrafts \cup EntryDrafts \cup OtherDrafts

\* the draft completed with the fields packBundle itself supplies, to run the
\* schema's rules on the draft's own fields
DraftAsManifest(d) ==
  [ spec |-> "1.0", id |-> IF d.id = None THEN "bundle_" \o Uuid1 ELSE d.id[1],
    name |-> d.name, slug |-> d.slug, version |-> d.version, description |-> d.description,
    author |-> d.author, created_at |-> 0, updated_at |-> 0, language |-> d.language,
    languages |-> d.languages, subject |-> d.subject, level |-> d.level, tags |-> d.tags,
    access |-> d.access, price |-> d.price, currency |-> d.currency, license |-> d.license,
    ankr_interact_version |-> "1.0.0", entry |-> d.entry,
    contents |-> [ docs |-> <<>>, assets |-> <<>>, quizzes |-> <<>>, flashcards |-> <<>>,
                   courses |-> <<>>, canvas |-> <<>> ],
    integrity |-> [ algorithm |-> "sha256", files |-> <<>>, manifest_hash |-> sha256(<<>>) ],
    signature |-> None ]

DraftSatisfiesSchema(d) == SchemaOk(DraftAsManifest(d))

\* ----------------------------------------------------------- sync engine
\* the mobile client's store (zustand): its initial state and its setters,
\* each of which merges its fields into the live state
NewSyncStore ==
  [ isSyncing |-> FALSE, lastSyncedAt |-> None, pendingCount |-> 0,
    lastError |-> None ]

setSyncing(s, isSyncing) == [ s EXCEPT !.isSyncing = isSyncing ]

setLastSynced(s, lastSyncedAt) ==
  [ s EXCEPT !.lastSyncedAt = Some(lastSyncedAt), !.lastError = None ]

setPendingCount(s, pendingCount) == [ s EXCEPT !.pendingCount = pendingCount ]

setError(s, lastError) == [ s EXCEPT !.lastError = lastError ]

\* the entity types the client queues, and those the server's switch knows
EntityType ==
  { "document", "flashcard_card", "flashcard_review", "task", "bundle_progress" }

\* the entity types of the mutations queued here
QueuedTypes == { "document" }

ServerEntityType == { "document", "bundle_progress", "task", "flashcard_review" }

\* "give up after 5 tries"
GiveUpAttempts == 5

\* the most mutations the server takes in one push
MaxPushMutations == 200

\* the mutation queue: the rows of sync_queue, kept in the order of createdAt
\* (a row is inserted with the current time, which never goes back)
enqueue(rows, id, entityType, now) ==
  Append(rows, [ id |-> id, entityType |-> entityType, entityId |-> id,
                 operation |-> "update", payload |-> "{}", createdAt |-> now,
                 attempts |-> 0, lastError |-> None ])

getPendingMutations(rows) == rows

removeMutation(rows, id) == SelectSeq(rows, LAMBDA r : r.id # id)

markFailed(rows, id, error) ==
  [ i \in 1..Len(rows) |->
      IF rows[i].id = id
      THEN [ rows[i] EXCEPT !.attempts = @ + 1, !.lastError = Some(error) ]
      ELSE rows[i] ]

\* the body of the client's request to POST /api/sync/push: one mutation
PushBody(mutation) ==
  [ entityType |-> mutation.entityType, entityId |-> mutation.entityId,
    operation |-> mutation.operation, payload |-> mutation.payload,
    clientTimestamp |-> mutation.createdAt ]

MustBeArray == "{\"error\":\"mutations must be a non-empty array\"}"

TooMany == "{\"error\":\"max 200 mutations per push\"}"

NetworkFailed == "Network request failed"

NotIterable == "undefined is not iterable"

DatabaseFailed == "database error"

\* the server applies one mutation: the switch on its entity type (the
\* appliers' conflicts and database errors are left out: they answer
\* inside an HTTP 200 all the same)
ApplyMutation(m) ==
  [ entityType |-> m.entityType, entityId |-> m.entityId,
    status |-> IF m.entityType \in ServerEntityType THEN "ok" ELSE "error" ]

\* the server's handler of POST /api/sync/push on a parsed request body
PushHandler(body) ==
  IF ~ ( "mutations" \in DOMAIN body ) \/ Len(body.mutations) = 0
  THEN [ status |-> 400, text |-> MustBeArray, results |-> <<>> ]
  ELSE IF Len(body.mutations) > MaxPushMutations
  THEN [ status |-> 400, text |-> TooMany, results |-> <<>> ]
  ELSE [ status |-> 200, text |-> "{\"ok\":true}",
         results |-> [ i \in 1..Len(body.mutations) |->
                         ApplyMutation(body.mutations[i]) ] ]

\* the mutations of a push the server applied
AppliedBy(response) ==
  { response.results[i].entityId :
      i \in { j \in 1..Len(response.results) : response.results[j].status = "ok" } }

\* the keys of the body the server's handler of GET /api/sync/pull answers
PullKeys ==
  { "ok", "serverTs", "since", "documents", "bundleProgress", "tasks",
    "flashcardReviews" }

\* res.ok
Ok(status) == status >= 200 /\ status <= 299

\* the calls of sync()
Runs == 1..MaxCalls

\* a call of sync(): where it stands (pc), its locals (the snapshot of the
\* store of line 50, the mutations of line 57, the loop index), whether it
\* has sent a request and whether it has called setLastSynced
IdleRun ==
  [ pc |-> "idle", snapshot |-> NewSyncStore, mutations |-> <<>>, i |-> 1,
    sent |-> FALSE, recorded |-> FALSE ]

\* what is seen of one push: the mutation, whether the request reached the
\* server and its answer's status, the row's attempts before and after, and
\* whether the row is still queued
NoPush ==
  [ id |-> 0, delivered |-> FALSE, status |-> 0, attemptsBefore |-> 0,
    attemptsAfter |-> 0, queued |-> FALSE, database |-> TRUE ]

\* what is seen of a call that ended: how, and whether it had sent a
\* request, had called setLastSynced, changed the store, left isSyncing set
\* and left lastError set
NoEnd ==
  [ how |-> "never", sent |-> FALSE, recorded |-> FALSE, changed |-> FALSE,
    isSyncing |-> FALSE, lastError |-> None ]

\* ------------------------------------------------------------------- state
VARIABLES
  clock,   \* the reading of new Date()
  orig,    \* None, or Some([opts, out]): the packBundle call made and its output
  buf,     \* the buffer the caller holds now (the output, or a buffer made from it)
  mod,     \* how buf was made from the packBundle output
  last,    \* the last call of validateBundle / unpackBundle / diffBundles on buf
  \* the mobile client and the sync server
  online,     \* useNetworkStore.isOnline
  store,      \* useSyncStore: isSyncing, lastSyncedAt, pendingCount, lastError
  syncQueue,  \* the rows of the local sync_queue table, oldest first
  runs,       \* the calls of sync(): where each one stands, and its locals
  applied,    \* the mutations the server's push handler has applied
  lastPush,   \* the last request to POST /api/sync/push and what came of it
  lastEnd     \* the last call of sync() that ended, and how it left the store

bundleVars == <<clock, orig, buf, mod, last>>
syncVars == <<online, store, syncQueue, runs, applied, lastPush, lastEnd>>

vars ==
  <<clock, orig, buf, mod, last,
    online, store, syncQueue, runs, applied, lastPush, lastEnd>>

\* a zero-length buffer
EmptyBuffer == [ zipOk |-> FALSE, manifest |-> None, files |-> <<>>, length |-> 0 ]

NoMod == [ how |-> "none", path |-> None, field |-> "", bump |-> None, threw |-> None ]

NoValidation == [ valid |-> FALSE, errors |-> <<>>, warnings |-> <<>>, manifest |-> None ]
NoUnpack     == [ threw |-> None, manifest |-> None, files |-> <<>> ]
NoDiffResult == [ threw |-> None, diff |-> NoDiff ]

\* a call of parseSemver(a), bumpVersion(a, bump) or compareSemver(a, b) and
\* what it returned; threw is TRUE where it raised 'Invalid semver'
\* c, results: where several calls are made in a row, a third argument and
\* what the calls returned, in order
NoSemver ==
  [ a |-> <<>>, b |-> <<>>, bump |-> "", threw |-> FALSE,
    parsed |-> <<>>, bumped |-> <<>>, compared |-> 0, c |-> <<>>, results |-> <<>> ]

\* before: where validateBundle is called a second time on the same buffer,
\* the key and the result of the first call
NoCall ==
  [ op |-> "none", signKey |-> None, validation |-> NoValidation, unpack |-> NoUnpack,
    diff |-> NoDiffResult, semver |-> NoSemver, before |-> None ]

\* buf is the unmodified output of the packBundle call recorded in orig
IsPackOutput == orig # None /\ mod.how = "none"

Init ==
  /\ clock = 0
  /\ orig = None
  /\ buf = EmptyBuffer
  /\ mod = NoMod
  /\ last = NoCall
  /\ online = TRUE
  /\ store = NewSyncStore
  /\ syncQueue = <<>>
  /\ runs = [ r \in Runs |-> IdleRun ]
  /\ applied = {}
  /\ lastPush = NoPush
  /\ lastEnd = NoEnd

\* time passes
Tick ==
  /\ clock < MaxClock
  /\ clock' = clock + 1
  /\ UNCHANGED <<orig, buf, mod, last>>
  /\ UNCHANGED syncVars

\* packBundle({ manifest: draft, files, signKey }), the first call
PackFrom(fileLists, drafts, signKeys, uuids) ==
  /\ orig = None
  /\ \E files \in fileLists, draft \in drafts, signKey \in signKeys, uuid \in uuids :
       LET opts == [ manifest |-> draft, files |-> files, signKey |-> signKey,
                     interactVersion |-> "" ]
           out  == packBundle(opts, clock, uuid)
       IN  /\ orig' = Some([ opts |-> opts, out |-> out ])
           /\ buf' = out
  /\ mod' = NoMod
  /\ last' = NoCall
  /\ UNCHANGED clock
  /\ UNCHANGED syncVars

\* a second packBundle call, whose output replaces buf
RepackFrom(fileLists, drafts, signKeys, uuids) ==
  /\ IsPackOutput
  /\ \E files \in fileLists, draft \in drafts, signKey \in signKeys, uuid \in uuids :
       buf' = packBundle([ manifest |-> draft, files |-> files, signKey |-> signKey,
                           interactVersion |-> "" ], clock, uuid)
  /\ mod' = [ NoMod EXCEPT !.how = "repack" ]
  /\ last' = NoCall
  /\ UNCHANGED <<clock, orig>>
  /\ UNCHANGED syncVars

\* validateBundle(buf, signKey)
ValidateWith(signKeys) ==
  /\ \E signKey \in signKeys :
       last' = [ NoCall EXCEPT !.op = "validate", !.signKey = signKey,
                               !.validation = validateBundle(buf, signKey) ]
  /\ UNCHANGED <<clock, orig, buf, mod>>
  /\ UNCHANGED syncVars

\* unpackBundle(buf)
Unpack ==
  /\ last' = [ NoCall EXCEPT !.op = "unpack", !.unpack = unpackBundle(buf) ]
  /\ UNCHANGED <<clock, orig, buf, mod>>
  /\ UNCHANGED syncVars

\* diffBundles(packBundle output, buf)
Diff ==
  /\ orig # None
  /\ last' = [ NoCall EXCEPT !.op = "diff", !.diff = diffBundles(orig[1].out, buf) ]
  /\ UNCHANGED <<clock, orig, buf, mod>>
  /\ UNCHANGED syncVars

\* the bytes a stored file may be replaced by
TamperBytes == { <<65>>, <<66>>, <<195, 169>> }

\* someone replaces the bytes stored at one path of buf by other bytes
TamperFile ==
  /\ IsPackOutput
  /\ \E i \in 1..Len(buf.files), bytes \in TamperBytes :
       /\ bytes # buf.files[i][2]
       /\ buf' = [ buf EXCEPT !.files = ObjSet(buf.files, buf.files[i][1], bytes) ]
       /\ mod' = [ NoMod EXCEPT !.how = "file", !.path = Some(buf.files[i][1]) ]
  /\ last' = NoCall
  /\ UNCHANGED <<clock, orig>>
  /\ UNCHANGED syncVars

\* the values a tamperer may give a field of the stored manifest m: for each
\* field some that the schema accepts and some that it rejects;
\* integrity.manifest_hash is left as it was
TamperValues(field, m) ==
  CASE field = "spec"        -> { "2.0", "1.1" }
    [] field = "id"          -> { "bundle_" \o u : u \in Uuids } \cup { "bundle_" }
    [] field = "name"        -> { <<"X">>, <<>> }
    [] field = "slug"        -> { <<"x">>, <<"X">> }
    [] field = "version"     -> { <<9, Dot, 9, Dot, 9>>, <<1, Dot, 2>> }
    [] field = "description" -> { "Changed" }
    [] field = "author"      -> { << <<"name", "Mallory">> >>,
                                  << <<"email", "asha@example.org">> >>,
                                  ParseAuthor(m.author) \o << <<"handle", "@m">> >> }
    [] field = "created_at"  -> { 7, 0 - 1 }
    [] field = "updated_at"  -> { 7, 0 - 1 }
    [] field = "language"    -> { "hi", "x" }
    [] field = "languages"   -> { None, Some(<<"fr">>) }
    [] field = "subject"     -> { None, Some("Physics") }
    [] field = "level"       -> { None, Some("advanced") }
    [] field = "tags"        -> { None, Some(<<"new">>) }
    [] field = "access"      -> { "premium", "secret" }
    [] field = "price"       -> { None, Some(5), Some(0 - 1) }
    [] field = "currency"    -> { None, Some("USD"), Some("rupees") }
    [] field = "license"     -> { "GPL-3.0", "" }
    [] field = "ankr_interact_version" -> { "9.9.9" }
    [] field = "entry"       -> { None, Some(AssetPath), Some(GhostPath) }
    [] field = "contents"    -> { [ m.contents EXCEPT !.docs = <<GhostPath>> ],
                                  [ m.contents EXCEPT !.docs = <<>>, !.assets = <<>> ] }
    [] field = "integrity"   -> { [ m.integrity EXCEPT !.algorithm = "md5" ],
                                  [ m.integrity EXCEPT !.files = ObjSet(m.integrity.files, GhostPath, sha256(<<0>>)) ],
                                  [ m.integrity EXCEPT !.files = <<>> ] }
    [] field = "signature"   -> { None,
                                  Some([ algorithm |-> "hmac-sha256",
                                         value     |-> hmac(m.integrity.manifest_hash, KeyJ),
                                         signed_at |-> 7 ]),
                                  Some([ algorithm |-> "hmac-sha256",
                                         value     |-> hmac(m.integrity.manifest_hash, KeyK),
                                         signed_at |-> 7 ]),
                                  Some([ algorithm |-> "none",
                                         value     |-> hmac(m.integrity.manifest_hash, KeyK),
                                         signed_at |-> 7 ]) }

\* someone changes one field of the manifest stored in buf
TamperField ==
  /\ IsPackOutput
  /\ \E f \in 1..Len(FieldOrder) :
       LET field == FieldOrder[f]
           m     == buf.manifest[1].json
       IN  \E value \in TamperValues(field, m) \ { m[field] } :
             /\ buf' = [ buf EXCEPT !.manifest[1].json[field] = value ]
             /\ mod' = [ NoMod EXCEPT !.how = "field", !.field = field ]
  /\ last' = NoCall
  /\ UNCHANGED <<clock, orig>>
  /\ UNCHANGED syncVars

\* bumpBundleVersion(buf, bump, changelog, signKey): its result replaces buf
BumpWith(changelogs, signKeys) ==
  /\ IsPackOutput
  /\ \E bump \in BumpTypes, changelog \in changelogs, signKey \in signKeys, uuid \in Uuids :
       LET r == bumpBundleVersion(buf, bump, changelog, signKey, clock, uuid)
       IN  /\ buf' = r.buffer
           /\ mod' = [ NoMod EXCEPT !.how = "bump", !.threw = r.threw,
                                    !.bump = Some([ level |-> bump, changelog |-> changelog,
                                                    signKey |-> signKey ]) ]
  /\ last' = NoCall
  /\ UNCHANGED <<clock, orig>>
  /\ UNCHANGED syncVars

PackKeys   == { None, Some(<<>>), Some(KeyK) }
VerifyKeys == { None, Some(<<>>), Some(KeyK), Some(KeyKNul), Some(KeyJ) }

PackPaths    == { DocPath, AssetPath, ManifestPath }
PackContents == { BufA, StrE }

PackFileLists == FileLists(PackPaths, PackContents)

Pack     == PackFrom(PackFileLists, Drafts, PackKeys, Uuids)
Validate == ValidateWith(VerifyKeys)

Next == Pack \/ Validate \/ Unpack

\* packBundle on every kind of input, then the read-only operations
Spec == Init /\ [][Next]_vars

\* -- a packed archive is modified, then validated
SmallPaths == { DocPath, AssetPath }

SmallFileLists == FileLists(SmallPaths, { BufA })
NoKeyOrK == { None, Some(KeyK) }
OneUuid  == { Uuid1 }

PackSmall == PackFrom(SmallFileLists, Drafts, NoKeyOrK, OneUuid)
ValidateTampered == ValidateWith(NoKeyOrK)

NextTamper == PackSmall \/ TamperFile \/ TamperField \/ ValidateTampered

SpecTamper == Init /\ [][NextTamper]_vars

\* -- two archives are packed and compared
OldPaths == { DocPath, DeckPath, AssetPath }
NewFiles ==
  FilesOver(OldPaths, { BufA, BufE })
  \cup FilesOver({ QuizPath, CoursePath, CanvasPath }, { BufA })

OtherVersionDraft == [ MinimalDraft EXCEPT !.version = <<2, Dot, 0, Dot, 0>> ]

OldFileLists == FileLists(OldPaths, { BufA })
NewFileLists == SeqsUpTo(NewFiles, MaxFiles)
OldDrafts    == { MinimalDraft }
NewDrafts    == { MinimalDraft, OtherVersionDraft }
NoKey        == { None }

PackOld == PackFrom(OldFileLists, OldDrafts, NoKey, OneUuid)
PackNew == RepackFrom(NewFileLists, NewDrafts, NoKey, OneUuid)

NextDiff == PackOld \/ PackNew \/ Diff

SpecDiff == Init /\ [][NextDiff]_vars

\* -- an archive is packed and, later, its version bumped
BumpDrafts == IdDrafts \cup OtherDrafts
Changelogs == { "", "Fix typos" }

PackForBump == PackFrom(SmallFileLists, BumpDrafts, NoKeyOrK, Uuids)
Bump == BumpWith(Changelogs, NoKeyOrK)
ValidateBumped == ValidateWith(NoKeyOrK)

NextBump == Tick \/ PackForBump \/ Bump \/ ValidateBumped \/ Unpack \/ Diff

SpecBump == Init /\ [][NextBump]_vars

\* no key, the key the archives are signed with, another key
SignVerifyKeys == { None, Some(KeyK), Some(KeyJ) }

\* -- an archive is packed, damaged in any number of places, then validated
\* (twice) and unpacked
DamageDrafts == { MinimalDraft, [ MinimalDraft EXCEPT !.entry = Some(DocPath) ] }

\* the manifest fields the damage may reach
EditedFields == { "spec", "description", "entry", "integrity", "signature" }

PackForDamage == PackFrom(SmallFileLists, DamageDrafts, NoKeyOrK, OneUuid)

\* buf is an archive that opens and whose manifest.json parses
Readable == orig # None /\ buf.zipOk /\ buf.manifest # None /\ buf.manifest[1].jsonOk

\* one stored file is removed from the archive
DeleteFile ==
  /\ Readable
  /\ \E i \in 1..Len(buf.files) :
       buf' = [ buf EXCEPT !.files = SubSeq(buf.files, 1, i - 1)
                                       \o SubSeq(buf.files, i + 1, Len(buf.files)) ]
  /\ mod' = [ NoMod EXCEPT !.how = "damage" ]
  /\ last' = NoCall
  /\ UNCHANGED <<clock, orig>>
  /\ UNCHANGED syncVars

\* the bytes stored at one path are replaced, whatever was done before
ReplaceFile ==
  /\ Readable
  /\ \E i \in 1..Len(buf.files), bytes \in TamperBytes :
       /\ bytes # buf.files[i][2]
       /\ buf' = [ buf EXCEPT !.files = ObjSet(buf.files, buf.files[i][1], bytes) ]
  /\ mod' = [ NoMod EXCEPT !.how = "damage" ]
  /\ last' = NoCall
  /\ UNCHANGED <<clock, orig>>
  /\ UNCHANGED syncVars

\* one field of the stored manifest, still as packed, is given another value
EditManifest ==
  /\ Readable
  /\ buf.manifest = orig[1].out.manifest
  /\ \E field \in EditedFields :
       LET m == buf.manifest[1].json
       IN  \E value \in TamperValues(field, m) \ { m[field] } :
             buf' = [ buf EXCEPT !.manifest[1].json[field] = value ]
  /\ mod' = [ NoMod EXCEPT !.how = "damage" ]
  /\ last' = NoCall
  /\ UNCHANGED <<clock, orig>>
  /\ UNCHANGED syncVars

\* the manifest.json entry is removed from the archive
RemoveManifest ==
  /\ Readable
  /\ buf' = [ buf EXCEPT !.manifest = None ]
  /\ mod' = [ NoMod EXCEPT !.how = "damage" ]
  /\ last' = NoCall
  /\ UNCHANGED <<clock, orig>>
  /\ UNCHANGED syncVars

\* the manifest.json entry is overwritten by text that is not JSON
CorruptManifest ==
  /\ Readable
  /\ buf' = [ buf EXCEPT !.manifest[1].jsonOk = FALSE ]
  /\ mod' = [ NoMod EXCEPT !.how = "damage" ]
  /\ last' = NoCall
  /\ UNCHANGED <<clock, orig>>
  /\ UNCHANGED syncVars

\* the buffer is cut short, so that it no longer opens as a ZIP container
Truncate ==
  /\ Readable
  /\ buf' = [ buf EXCEPT !.zipOk = FALSE ]
  /\ mod' = [ NoMod EXCEPT !.how = "damage" ]
  /\ last' = NoCall
  /\ UNCHANGED <<clock, orig>>
  /\ UNCHANGED syncVars

ValidateDamaged == ValidateWith(SignVerifyKeys)

\* a validateBundle whose errors and warnings arrays outlive the call: the
\* second call appends to what the first one collected
ValidateAgainSharedArrays ==
  /\ last.op = "validate"
  /\ \E signKey \in NoKeyOrK :
       LET r == validateBundle(buf, signKey)
           errors   == last.validation.errors \o r.errors
           warnings == last.validation.warnings \o r.warnings
       IN  last' = [ NoCall EXCEPT !.op = "validate again", !.signKey = signKey,
                       !.validation = [ r EXCEPT !.valid = (errors = <<>>), !.errors = errors,
                                                 !.warnings = warnings ],
                       !.before = Some([ signKey    |-> last.signKey,
                                         validation |-> last.validation ]) ]
  /\ UNCHANGED <<clock, orig, buf, mod>>
  /\ UNCHANGED syncVars

\* validateBundle(buf, signKey) once more, after a first call on the same buf
ValidateAgain ==
  /\ last.op = "validate"
  /\ \E signKey \in NoKeyOrK :
       last' = [ NoCall EXCEPT !.op = "validate again", !.signKey = signKey,
                               !.validation = validateBundle(buf, signKey),
                               !.before = Some([ signKey    |-> last.signKey,
                                                 validation |-> last.validation ]) ]
  /\ UNCHANGED <<clock, orig, buf, mod>>
  /\ UNCHANGED syncVars

NextValidate ==
  \/ PackForDamage \/ DeleteFile \/ ReplaceFile \/ EditManifest
  \/ RemoveManifest \/ CorruptManifest \/ Truncate
  \/ ValidateDamaged \/ ValidateAgain \/ Unpack

SpecValidate == Init /\ [][NextValidate]_vars

\* -- an archive is packed and, later, signed
SignKeys == { KeyK, KeyJ }

PackForSign == PackFrom(SmallFileLists, BumpDrafts, NoKeyOrK, Uuids)

\* signBundle(buf, signKey): its result replaces buf
Sign ==
  /\ IsPackOutput
  /\ \E signKey \in SignKeys, uuid \in Uuids :
       LET r == signBundle(buf, signKey, clock, uuid)
       IN  /\ buf' = r.buffer
           /\ mod' = [ NoMod EXCEPT !.how = "sign", !.threw = r.threw,
                                    !.bump = Some([ level |-> "", changelog |-> "",
                                                    signKey |-> Some(signKey) ]) ]
  /\ last' = NoCall
  /\ UNCHANGED <<clock, orig>>
  /\ UNCHANGED syncVars

ValidateSigned == ValidateWith(SignVerifyKeys)

NextSign == Tick \/ PackForSign \/ Sign \/ ValidateSigned \/ Unpack

SpecSign == Init /\ [][NextSign]_vars

\* -- archives of every size, with and without an entry point, are validated
\* zip.generateAsync decides buffer.length; compression is not modelled, so
\* an archive of large files is one whose length is drawn from these
ArchiveLengths == { LargeBundleBytes - 1, LargeBundleBytes, LargeBundleBytes + 1 }

EntryPointDrafts ==
  { MinimalDraft,
    [ MinimalDraft EXCEPT !.entry = Some(DocPath) ],
    [ MinimalDraft EXCEPT !.entry = Some(GhostPath) ],
    [ MinimalDraft EXCEPT !.entry = Some(ManifestPath) ],
    [ MinimalDraft EXCEPT !.id = Some("bundle_" \o Uuid1), !.entry = Some(GhostPath) ] }

\* packBundle of files that make an archive of the given length
PackOfSize ==
  /\ orig = None
  /\ \E files \in SmallFileLists, draft \in EntryPointDrafts, signKey \in NoKeyOrK,
        length \in ArchiveLengths :
       LET opts == [ manifest |-> draft, files |-> files, signKey |-> signKey,
                     interactVersion |-> "" ]
           out  == [ packBundle(opts, clock, Uuid1) EXCEPT !.length = length ]
       IN  /\ orig' = Some([ opts |-> opts, out |-> out ])
           /\ buf' = out
  /\ mod' = NoMod
  /\ last' = NoCall
  /\ UNCHANGED clock
  /\ UNCHANGED syncVars

PackWithEntry == PackFrom(SmallFileLists, EntryPointDrafts, NoKeyOrK, OneUuid)
ValidateSized == ValidateWith(NoKeyOrK)

NextWarn == PackOfSize \/ PackWithEntry \/ ValidateSized

SpecWarn == Init /\ [][NextWarn]_vars

\* -- an archive, signed or not, is bumped with every kind of key argument
PackForRebump == PackFrom(SmallFileLists, BumpDrafts, NoKeyOrK, OneUuid)
BumpAnyKey == BumpWith(Changelogs, PackKeys)

NextRebump == PackForRebump \/ BumpAnyKey \/ Unpack

SpecRebump == Init /\ [][NextRebump]_vars

\* -- two archives packed from different drafts, at different times, under
\* different identifiers and keys, are compared
DiffFileLists == { <<>>, << [ path |-> DocPath, content |-> BufA ] >> }
DiffDrafts ==
  { MinimalDraft, OtherVersionDraft,
    [ MinimalDraft EXCEPT !.description = "Changed" ],
    [ MinimalDraft EXCEPT !.tags = Some(<<>>) ],
    [ MinimalDraft EXCEPT !.languages = Some(<<"en", "hi">>), !.subject = Some("Maths"),
                          !.level = Some("beginner"), !.tags = Some(<<"algebra">>),
                          !.price = Some(0), !.currency = Some("INR") ] }

PackFirst == PackFrom(DiffFileLists, DiffDrafts, NoKeyOrK, Uuids)
PackSecond == RepackFrom(DiffFileLists, DiffDrafts, NoKeyOrK, Uuids)

NextManifestDiff == Tick \/ PackFirst \/ PackSecond \/ Diff

SpecManifestDiff == Init /\ [][NextManifestDiff]_vars

\* -- a file is added to a packed archive, which is then read
\* the paths a file may be added under
ExtraPaths == { GhostPath, CanvasPath }

\* someone adds a file to buf under a path where it holds none
AddFile ==
  /\ IsPackOutput
  /\ \E p \in ExtraPaths, bytes \in TamperBytes :
       /\ ~ObjHas(buf.files, p)
       /\ buf' = [ buf EXCEPT !.files = Append(buf.files, <<p, bytes>>) ]
       /\ mod' = [ NoMod EXCEPT !.how = "add", !.path = Some(p) ]
  /\ last' = NoCall
  /\ UNCHANGED <<clock, orig>>
  /\ UNCHANGED syncVars

NextExtra == PackSmall \/ AddFile \/ ValidateTampered \/ Unpack \/ Diff

SpecExtra == Init /\ [][NextExtra]_vars

\* -- the version functions on their own
MaxPart == 2       \* largest small version component tried

Parts == (0..MaxPart) \cup { TwoTo53 - 1, TwoTo53, TwoTo53 + 1 }

WellFormedVersions == { <<major, Dot, minor, Dot, patch>> : major, minor, patch \in Parts }

\* '1.2', '1.2.3.4', 'v1.2.3', '1.2.x', '', '1..3', '.1.2.3', '1.2.3.', 'x'
MalformedVersions ==
  { <<1, Dot, 2>>, <<1, Dot, 2, Dot, 3, Dot, 4>>, <<CharV, 1, Dot, 2, Dot, 3>>,
    <<1, Dot, 2, Dot, CharX>>, <<>>, <<1, Dot, Dot, 3>>, <<Dot, 1, Dot, 2, Dot, 3>>,
    <<1, Dot, 2, Dot, 3, Dot>>, <<CharX>> }

Versions == WellFormedVersions \cup MalformedVersions

\* the three functions keep no state: one call is made in a behaviour
ParseSemverCall ==
  /\ last.op = "none"
  /\ \E a \in Versions :
       LET r == parseSemver(a)
       IN  last' = [ NoCall EXCEPT !.op = "parseSemver",
                       !.semver = [ NoSemver EXCEPT !.a = a, !.threw = (r = None),
                                      !.parsed = IF r = None THEN <<>> ELSE r[1] ] ]
  /\ UNCHANGED <<clock, orig, buf, mod>>
  /\ UNCHANGED syncVars

BumpVersionCall ==
  /\ last.op = "none"
  /\ \E a \in Versions, bump \in BumpTypes :
       LET r == bumpVersion(a, bump)
       IN  last' = [ NoCall EXCEPT !.op = "bumpVersion",
                       !.semver = [ NoSemver EXCEPT !.a = a, !.bump = bump, !.threw = (r = None),
                                      !.bumped = IF r = None THEN <<>> ELSE r[1] ] ]
  /\ UNCHANGED <<clock, orig, buf, mod>>
  /\ UNCHANGED syncVars

CompareSemverCall ==
  /\ last.op = "none"
  /\ \E a \in Versions, b \in Versions :
       LET r == compareSemver(a, b)
       IN  last' = [ NoCall EXCEPT !.op = "compareSemver",
                       !.semver = [ NoSemver EXCEPT !.a = a, !.b = b, !.threw = (r = None),
                                      !.compared = IF r = None THEN 0 ELSE r[1] ] ]
  /\ UNCHANGED <<clock, orig, buf, mod>>
  /\ UNCHANGED syncVars

NextSemver == ParseSemverCall \/ BumpVersionCall \/ CompareSemverCall

SpecSemver == Init /\ [][NextSemver]_vars

\* -- the version functions called in a row on related arguments
\* versions with small components, for calls on three of them
SmallVersions == { <<major, Dot, minor, Dot, patch>> : major, minor, patch \in 0..(MaxPart - 1) }

\* compareSemver(a, b), then compareSemver(b, a)
CompareBothWays ==
  /\ last.op = "none"
  /\ \E a \in WellFormedVersions, b \in WellFormedVersions :
       last' = [ NoCall EXCEPT !.op = "compare both ways",
                   !.semver = [ NoSemver EXCEPT !.a = a, !.b = b,
                                  !.results = << compareSemver(a, b)[1], compareSemver(b, a)[1] >> ] ]
  /\ UNCHANGED <<clock, orig, buf, mod>>
  /\ UNCHANGED syncVars

\* compareSemver(a, b), compareSemver(b, c), compareSemver(a, c)
CompareThree ==
  /\ last.op = "none"
  /\ \E a \in SmallVersions, b \in SmallVersions, c \in SmallVersions :
       last' = [ NoCall EXCEPT !.op = "compare three",
                   !.semver = [ NoSemver EXCEPT !.a = a, !.b = b, !.c = c,
                                  !.results = << compareSemver(a, b)[1], compareSemver(b, c)[1],
                                                 compareSemver(a, c)[1] >> ] ]
  /\ UNCHANGED <<clock, orig, buf, mod>>
  /\ UNCHANGED syncVars

\* compareSemver(a, bumpVersion(a, bump))
BumpAndCompare ==
  /\ last.op = "none"
  /\ \E a \in WellFormedVersions, bump \in BumpTypes :
       LET bumped == bumpVersion(a, bump)[1]
       IN  last' = [ NoCall EXCEPT !.op = "bump and compare",
                       !.semver = [ NoSemver EXCEPT !.a = a, !.bump = bump, !.bumped = bumped,
                                      !.results = << compareSemver(a, bumped)[1] >> ] ]
  /\ UNCHANGED <<clock, orig, buf, mod>>
  /\ UNCHANGED syncVars

\* compareSemver of the patch bump with the minor bump, and of the minor bump
\* with the major bump, of one version
CompareBumps ==
  /\ last.op = "none"
  /\ \E a \in WellFormedVersions :
       LET patch == bumpVersion(a, "patch")[1]
           minor == bumpVersion(a, "minor")[1]
           major == bumpVersion(a, "major")[1]
       IN  last' = [ NoCall EXCEPT !.op = "compare bumps",
                       !.semver = [ NoSemver EXCEPT !.a = a,
                                      !.results = << compareSemver(patch, minor)[1],
                                                     compareSemver(minor, major)[1] >> ] ]
  /\ UNCHANGED <<clock, orig, buf, mod>>
  /\ UNCHANGED syncVars

NextOrder == CompareBothWays \/ CompareThree \/ BumpAndCompare \/ CompareBumps

SpecOrder == Init /\ [][NextOrder]_vars

\* ------------------------------------------------- the sync engine's steps
\* A call of sync() runs to its next await in one step. The local database
\* answers each call or rejects it (database), a request reaches the server
\* or fails on the way (delivered); offline, no request reaches the server.
Reaches == IF online THEN BOOLEAN ELSE { FALSE }

\* the finally block, after the store became s: setSyncing(false)
EndRun(r, s, how, sent) ==
  /\ store' = setSyncing(s, FALSE)
  /\ runs' = [ runs EXCEPT ![r] = IdleRun ]
  /\ lastEnd' = [ how |-> how, sent |-> sent, recorded |-> runs[r].recorded,
                  changed |-> store' # runs[r].snapshot,
                  isSyncing |-> store'.isSyncing,
                  lastError |-> store'.lastError ]

\* the outer catch: setError(message), then the finally block
Throw(r, message, sent) ==
  EndRun(r, setError(store, Some(message)), "failed", sent)

\* a local write is queued
Enqueue ==
  /\ Len(syncQueue) < MaxQueue
  /\ \E id \in 1..MaxQueue, entityType \in QueuedTypes :
       /\ \A i \in 1..Len(syncQueue) : syncQueue[i].id # id
       /\ \A r \in Runs : \A i \in 1..Len(runs[r].mutations) :
            runs[r].mutations[i].id # id
       /\ syncQueue' = enqueue(syncQueue, id, entityType, clock)
  /\ UNCHANGED <<online, store, runs, applied, lastPush, lastEnd>>
  /\ UNCHANGED bundleVars

\* the network monitor's listener: setOnline
SetOnline ==
  /\ online' = ~ online
  /\ UNCHANGED <<store, syncQueue, runs, applied, lastPush, lastEnd>>
  /\ UNCHANGED bundleVars

\* sync(), lines 50-54: the guard, then setSyncing(true) and setError(null)
CallSync ==
  /\ \E r \in Runs :
       /\ runs[r].pc = "idle"
       /\ IF store.isSyncing \/ ~ online
          THEN /\ UNCHANGED <<store, runs, lastPush>>
               /\ lastEnd' = [ how |-> "returned", sent |-> FALSE,
                               recorded |-> FALSE, changed |-> store' # store,
                               isSyncing |-> store'.isSyncing,
                               lastError |-> store'.lastError ]
          ELSE /\ store' = setError(setSyncing(store, TRUE), None)
               /\ runs' = [ runs EXCEPT ![r] =
                              [ IdleRun EXCEPT !.pc = "load",
                                               !.snapshot = store ] ]
               /\ lastEnd' = NoEnd
               /\ lastPush' = NoPush
  /\ UNCHANGED <<online, syncQueue, applied>>
  /\ UNCHANGED bundleVars

\* lines 57-58: getPendingMutations, setPendingCount
LoadMutations ==
  /\ \E r \in Runs, database \in BOOLEAN :
       /\ runs[r].pc = "load"
       /\ IF database
          THEN /\ store' = setPendingCount(store, Len(getPendingMutations(syncQueue)))
               /\ runs' = [ runs EXCEPT ![r] =
                              [ @ EXCEPT !.pc = "push", !.i = 1,
                                         !.mutations = getPendingMutations(syncQueue) ] ]
               /\ UNCHANGED lastEnd
          ELSE Throw(r, DatabaseFailed, runs[r].sent)
  /\ UNCHANGED <<online, syncQueue, applied, lastPush>>
  /\ UNCHANGED bundleVars

AttemptsOf(rows, id) ==
  IF \E i \in 1..Len(rows) : rows[i].id = id
  THEN (CHOOSE row \in Range(rows) : row.id = id).attempts
  ELSE 0

\* lines 64-89: one turn of the push loop
PushMutation ==
  /\ \E r \in Runs :
       /\ runs[r].pc = "push"
       /\ runs[r].i <= Len(runs[r].mutations)
       /\ LET mutation == runs[r].mutations[runs[r].i]
          IN  IF mutation.attempts >= GiveUpAttempts
              THEN /\ runs' = [ runs EXCEPT ![r].i = @ + 1 ]
                   /\ UNCHANGED <<store, syncQueue, applied, lastPush, lastEnd>>
              ELSE \E delivered \in Reaches, database \in BOOLEAN :
                     LET res == PushHandler(PushBody(mutation))
                         ok == delivered /\ Ok(res.status)
                         err == IF delivered THEN res.text ELSE NetworkFailed
                     IN  /\ applied' = IF delivered
                                       THEN applied \cup AppliedBy(res)
                                       ELSE applied
                         /\ syncQueue' =
                              IF ~ database THEN syncQueue
                              ELSE IF ok THEN removeMutation(syncQueue, mutation.id)
                              ELSE markFailed(syncQueue, mutation.id, err)
                         /\ lastPush' =
                              [ id |-> mutation.id, delivered |-> delivered,
                                status |-> IF delivered THEN res.status ELSE 0,
                                attemptsBefore |-> AttemptsOf(syncQueue, mutation.id),
                                attemptsAfter |-> AttemptsOf(syncQueue', mutation.id),
                                queued |-> \E i \in 1..Len(syncQueue') :
                                             syncQueue'[i].id = mutation.id,
                                database |-> database ]
                         /\ IF database
                            THEN /\ runs' = [ runs EXCEPT ![r].i = @ + 1,
                                                          ![r].sent = TRUE ]
                                 /\ UNCHANGED <<store, lastEnd>>
                            ELSE Throw(r, DatabaseFailed, TRUE)
  /\ UNCHANGED online
  /\ UNCHANGED bundleVars

\* lines 92-112: the pull request and its answer. The server's handler
\* answers 200 with the keys PullKeys, or 500 when its database fails.
Pull ==
  /\ \E r \in Runs, delivered \in Reaches, status \in { 200, 500 } :
       /\ runs[r].pc = "push"
       /\ runs[r].i > Len(runs[r].mutations)
       /\ IF ~ delivered
          THEN Throw(r, NetworkFailed, TRUE)
          ELSE IF Ok(status) /\ ~ ( "entities" \in PullKeys )
          THEN Throw(r, NotIterable, TRUE)
          ELSE /\ runs' = [ runs EXCEPT ![r].pc = "record", ![r].sent = TRUE ]
               /\ UNCHANGED <<store, lastEnd>>
  /\ lastPush' = NoPush
  /\ UNCHANGED <<online, syncQueue, applied>>
  /\ UNCHANGED bundleVars

\* lines 115-120: the time of the sync is saved, then setLastSynced(now)
RecordSyncTime ==
  /\ \E r \in Runs, database \in BOOLEAN :
       /\ runs[r].pc = "record"
       /\ IF database
          THEN /\ store' = setLastSynced(store, clock)
               /\ runs' = [ runs EXCEPT ![r].pc = "recount",
                                        ![r].recorded = TRUE ]
               /\ UNCHANGED lastEnd
          ELSE Throw(r, DatabaseFailed, runs[r].sent)
  /\ UNCHANGED <<online, syncQueue, applied, lastPush>>
  /\ UNCHANGED bundleVars

\* lines 121-128: the queue is counted again, and the run ends
Recount ==
  /\ \E r \in Runs, database \in BOOLEAN :
       /\ runs[r].pc = "recount"
       /\ IF database
          THEN EndRun(r, setPendingCount(store, Len(getPendingMutations(syncQueue))),
                      "completed", runs[r].sent)
          ELSE Throw(r, DatabaseFailed, runs[r].sent)
  /\ UNCHANGED <<online, syncQueue, applied, lastPush>>
  /\ UNCHANGED bundleVars

NextSync ==
  \/ Tick
  \/ Enqueue
  \/ SetOnline
  \/ CallSync
  \/ LoadMutations
  \/ PushMutation
  \/ Pull
  \/ RecordSyncTime
  \/ Recount

SpecSync == Init /\ [][NextSync]_vars

\* ------------------------------------------------------ claim vocabulary
DistinctPaths(files) ==
  \A i, j \in 1..Len(files) : i # j => files[i].path # files[j].path

NoManifestInput(files) == \A i \in 1..Len(files) : files[i].path # ManifestPath

HasError(result, msg) == \E i \in 1..Len(result.errors) : result.errors[i].msg = msg
HasWarning(result, msg) == \E i \in 1..Len(result.warnings) : result.warnings[i].msg = msg

ValidInputs ==
  /\ DistinctPaths(orig[1].opts.files)
  /\ NoManifestInput(orig[1].opts.files)
  /\ DraftSatisfiesSchema(orig[1].opts.manifest)

IntegrityFailures(result) ==
  { i \in 1..Len(result.errors) : result.errors[i].msg = "Integrity failure" }

UnverifiedWarnings(result) ==
  { i \in 1..Len(result.warnings) :
      result.warnings[i].msg = "Bundle is signed but no verify key provided" }

\* the manifest stored in an archive, as written
StoredManifest(buffer) == buffer.manifest[1].json

\* the two sides of the last diffBundles call, as path -> bytes
OldSide == orig[1].out.files
NewSide == buf.files
BothSides == Range(ObjKeys(OldSide)) \cup Range(ObjKeys(NewSide))

InContentDirectory(p) == p[1] \in { "docs", "quizzes", "flashcards", "courses" }

RemovedPath(p)  == ObjHas(OldSide, p) /\ ~ObjHas(NewSide, p)
AddedPath(p)    == ~ObjHas(OldSide, p) /\ ObjHas(NewSide, p)
ModifiedPath(p) == ObjHas(OldSide, p) /\ ObjHas(NewSide, p)
                   /\ ObjGet(OldSide, p) # ObjGet(NewSide, p)
SamePath(p)     == ObjHas(OldSide, p) /\ ObjHas(NewSide, p)
                   /\ ObjGet(OldSide, p) = ObjGet(NewSide, p)

DiffDone == last.op = "diff" /\ last.diff.threw = None

\* C1: for input files with pairwise distinct paths, none of them the
\* manifest path, and a draft whose fields satisfy the manifest schema,
\* validateBundle(packBundle(files, draft)) without a key returns valid = true
\* and no errors.
C1_PackThenValidateIsValid ==
  ( /\ IsPackOutput
    /\ last.op = "validate"
    /\ last.signKey = None
    /\ ValidInputs )
  => ( last.validation.valid /\ last.validation.errors = <<>> )

\* C2: after the bytes stored at one path p of a packBundle output are
\* replaced by different bytes, validateBundle returns valid = false with
\* exactly one integrity-failure error, which names p, no error naming another
\* path and no manifest-hash error.
C2_FileTamperIsOneIntegrityFailure ==
  ( /\ mod.how = "file"
    /\ last.op = "validate"
    /\ ValidInputs )
  => LET result == last.validation
     IN  /\ ~result.valid
         /\ Cardinality(IntegrityFailures(result)) = 1
         /\ \A i \in 1..Len(result.errors) :
              result.errors[i].path # None => result.errors[i].path = mod.path
         /\ \A i \in IntegrityFailures(result) : result.errors[i].path = mod.path
         /\ ~HasError(result, "Manifest hash mismatch")

C4_SignatureErrorIffOtherKey ==
  ( /\ IsPackOutput
    /\ last.op = "validate"
    /\ Truthy(orig[1].opts.signKey)
    /\ last.signKey # None
    /\ ValidInputs )
  => LET K      == orig[1].opts.signKey[1]
         K2     == last.signKey[1]
         result == last.validation
     IN  /\ HasError(result, "Signature verification failed") <=> K2 # K
         /\ K2 # K => ~result.valid
         /\ K2 = K => /\ result.valid
                      /\ ~HasError(result, "Manifest hash mismatch")

\* C5: for an unmodified signed packBundle output, validateBundle without a
\* key adds exactly one signature-unverified warning and no signature error,
\* and returns valid = true.
C5_NoKeyIsOneWarning ==
  ( /\ IsPackOutput
    /\ last.op = "validate"
    /\ last.signKey = None
    /\ StoredManifest(buf).signature # None
    /\ ValidInputs )
  => LET result == last.validation
     IN  /\ Cardinality(UnverifiedWarnings(result)) = 1
         /\ ~HasError(result, "Signature verification failed")
         /\ result.valid

\* C6: unpackBundle(packBundle(files, draft)) returns, for every input path,
\* exactly one file with that path, holding the bytes of an input with that
\* path and hashing to the value integrity.files records for it, and returns
\* no file that was not an input.
C6_UnpackReturnsTheInputs ==
  ( /\ IsPackOutput
    /\ last.op = "unpack"
    /\ DraftSatisfiesSchema(orig[1].opts.manifest) )
  => LET inputs   == orig[1].opts.files
         returned == last.unpack.files
     IN  /\ last.unpack.threw = None
         /\ \A i \in 1..Len(inputs) :
              /\ Cardinality({ j \in 1..Len(returned) : returned[j].path = inputs[i].path }) = 1
              /\ \A j \in 1..Len(returned) :
                   returned[j].path = inputs[i].path =>
                     /\ \E k \in 1..Len(inputs) :
                          /\ inputs[k].path = inputs[i].path
                          /\ bufferOf(returned[j].content) = bufferOf(inputs[k].content)
                     /\ last.unpack.manifest # None
                     /\ MapGet(last.unpack.manifest[1].integrity.files, inputs[i].path)
                          = Some(sha256(bufferOf(returned[j].content)))
         /\ \A j \in 1..Len(returned) :
              \E i \in 1..Len(inputs) : inputs[i].path = returned[j].path

\* C7: for a packBundle output A and a level, bumpBundleVersion(A, level)
\* returns an archive B that unpackBundle accepts, whose version is
\* bumpVersion(A.version, level), and diffBundles(A, B) reports
\* added = removed = modified = 0 with every path unchanged.
C7_BumpedArchiveUnpacksAndDiffsClean ==
  ( mod.how = "bump" /\ ValidInputs )
  => /\ mod.threw = None
     /\ last.op = "unpack" =>
          /\ last.unpack.threw = None
          /\ Some(last.unpack.manifest[1].version)
               = bumpVersion(StoredManifest(orig[1].out).version, mod.bump[1].level)
     /\ last.op = "diff" =>
          /\ last.diff.threw = None
          /\ last.diff.diff.added = 0
          /\ last.diff.diff.removed = 0
          /\ last.diff.diff.modified = 0
          /\ \A i \in 1..Len(last.diff.diff.files) :
               last.diff.diff.files[i].change = "unchanged"

\* C8: for an archive A that unpacks, diffBundles(A, A) reports
\* added = removed = modified = 0, unchanged = the number of files of A, every
\* record unchanged with oldHash = newHash, bumpLevel 'patch' and no
\* manifestChanges.
C8_DiffWithItself ==
  ( /\ last.op = "diff"
    /\ buf = orig[1].out
    /\ unpackBundle(buf).threw = None )
  => LET d == last.diff.diff
     IN  /\ last.diff.threw = None
         /\ d.added = 0 /\ d.removed = 0 /\ d.modified = 0
         /\ d.unchanged = Len(buf.files)
         /\ Len(d.files) = Len(buf.files)
         /\ \A i \in 1..Len(d.files) :
              /\ d.files[i].change = "unchanged"
              /\ d.files[i].oldHash # None
              /\ d.files[i].oldHash = d.files[i].newHash
         /\ d.bumpLevel = "patch"
         /\ Len(d.manifestChanges) = 0

\* an archive of two files compared with itself
C8_Witness ==
  /\ DiffDone
  /\ buf = orig[1].out
  /\ Len(buf.files) = 2
  /\ last.diff.diff.unchanged = 2

\* C9: diffBundles infers 'major' if a removed path lies under docs/,
\* quizzes/, flashcards/ or courses/, whatever else changed; otherwise 'minor'
\* if an added or modified path lies under one of them; otherwise 'patch'.
C9_BumpLevelPrecedence ==
  DiffDone
  => last.diff.diff.bumpLevel =
       IF \E p \in BothSides : RemovedPath(p) /\ InContentDirectory(p)
         THEN "major"
       ELSE IF \E p \in BothSides : (AddedPath(p) \/ ModifiedPath(p)) /\ InContentDirectory(p)
         THEN "minor"
       ELSE "patch"

\* a content path removed while another content path is added: 'major'
C9_Witness ==
  /\ DiffDone
  /\ \E p \in BothSides : RemovedPath(p) /\ InContentDirectory(p)
  /\ \E p \in BothSides : AddedPath(p) /\ InContentDirectory(p)
  /\ last.diff.diff.bumpLevel = "major"

\* C10: diffBundles(old, new) returns exactly one file record for every path
\* of either archive and none for another path; the record is 'added' iff the
\* path is only in new, 'removed' iff only in old, 'modified' iff in both
\* with different hashes, 'unchanged' iff in both with equal hashes; the four
\* counts add up to the number of paths.
C10_OneRecordPerPath ==
  DiffDone
  => LET d == last.diff.diff
     IN  /\ \A p \in BothSides :
              Cardinality({ i \in 1..Len(d.files) : d.files[i].path = p }) = 1
         /\ \A i \in 1..Len(d.files) :
              LET p == d.files[i].path
              IN  /\ p \in BothSides
                  /\ d.files[i].change = "added"     <=> AddedPath(p)
                  /\ d.files[i].change = "removed"   <=> RemovedPath(p)
                  /\ d.files[i].change = "modified"  <=> ModifiedPath(p)
                  /\ d.files[i].change = "unchanged" <=> SamePath(p)
         /\ d.added + d.removed + d.modified + d.unchanged = Cardinality(BothSides)

\* three paths, one only in old, one only in new, one in both and equal
C10_Witness ==
  /\ DiffDone
  /\ Cardinality(BothSides) = 3
  /\ \E p \in BothSides : AddedPath(p)
  /\ \E p \in BothSides : RemovedPath(p)
  /\ \E p \in BothSides : SamePath(p)
  /\ last.diff.diff.added = 1 /\ last.diff.diff.removed = 1 /\ last.diff.diff.unchanged = 1

\* the sign of the lexicographic comparison of two triples
LexSign(x, y) ==
  IF x[1] # y[1] THEN (IF x[1] < y[1] THEN 0 - 1 ELSE 1)
  ELSE IF x[2] # y[2] THEN (IF x[2] < y[2] THEN 0 - 1 ELSE 1)
  ELSE IF x[3] # y[3] THEN (IF x[3] < y[3] THEN 0 - 1 ELSE 1)
  ELSE 0

\* the three integers a well-formed version string denotes
Triple(v) == <<v[1], v[3], v[5]>>

\* C11: for every well-formed version M.N.P, bumpVersion returns (M+1).0.0
\* for 'major', M.(N+1).0 for 'minor' and M.N.(P+1) for 'patch', and
\* compareSemver(a, b) returns -1, 0 or 1 by the lexicographic order of the
\* triples of a and b.
C11_SemverArithmetic ==
  /\ ( last.op = "bumpVersion" /\ last.semver.a \in WellFormedVersions )
     => LET t == Triple(last.semver.a)
        IN  /\ ~last.semver.threw
            /\ last.semver.bumped =
                 CASE last.semver.bump = "major" -> <<t[1] + 1, Dot, 0, Dot, 0>>
                   [] last.semver.bump = "minor" -> <<t[1], Dot, t[2] + 1, Dot, 0>>
                   [] last.semver.bump = "patch" -> <<t[1], Dot, t[2], Dot, t[3] + 1>>
  /\ ( /\ last.op = "compareSemver"
       /\ last.semver.a \in WellFormedVersions
       /\ last.semver.b \in WellFormedVersions )
     => /\ ~last.semver.threw
        /\ last.semver.compared = LexSign(Triple(last.semver.a), Triple(last.semver.b))

\* a call of validateBundle has returned
Validated == last.op \in { "validate", "validate again" }

\* C12: every result validateBundle returns, on the early-return paths too,
\* has valid = true exactly when its errors are empty, whatever its warnings.
C12_ValidIffNoErrors ==
  Validated => ( last.validation.valid <=> last.validation.errors = <<>> )

\* a result with warnings and valid = true
C12_Witness ==
  /\ Validated
  /\ last.validation.valid
  /\ last.validation.warnings # <<>>

\* validateBundle was called twice in a row on the same bytes with the same key
ValidatedTwice ==
  /\ last.op = "validate again"
  /\ last.before # None
  /\ last.before[1].signKey = last.signKey

ErrorTag(threw) ==
  IF threw = Some("BUNDLE_INVALID: missing manifest.json") THEN "BUNDLE_INVALID" ELSE ""

\* C14: unpackBundle fails with a BUNDLE_INVALID error when the container
\* cannot be opened and when it holds no manifest.json, with a SCHEMA_VIOLATION
\* error when the manifest fails the schema, and otherwise returns every entry
\* other than manifest.json as a file record.
C14_UnpackErrorsAreTagged ==
  last.op = "unpack"
  => /\ ( ~buf.zipOk \/ buf.manifest = None )
          => ErrorTag(last.unpack.threw) = "BUNDLE_INVALID"
     /\ ( buf.zipOk /\ buf.manifest # None /\ buf.manifest[1].jsonOk
          /\ ~SchemaOk(buf.manifest[1].json) )
          => ErrorTag(last.unpack.threw) = "SCHEMA_VIOLATION"
     /\ last.unpack.threw = None
          => /\ Len(last.unpack.files) = Len(buf.files)
             /\ \A i \in 1..Len(buf.files) :
                  /\ last.unpack.files[i].path = buf.files[i][1]
                  /\ last.unpack.files[i].content.data = buf.files[i][2]

\* C15: parseSemver, bumpVersion and compareSemver raise for every string
\* that is not exactly three non-negative decimal integers separated by dots;
\* compareSemver raises when either of its arguments is such a string.
C15_MalformedVersionRaises ==
  /\ ( last.op \in { "parseSemver", "bumpVersion" } /\ last.semver.a \in MalformedVersions )
       => last.semver.threw
  /\ ( last.op = "compareSemver"
       /\ ( last.semver.a \in MalformedVersions \/ last.semver.b \in MalformedVersions ) )
       => last.semver.threw

\* compareSemver('0.0.0', '1.2.3.4') has raised
C15_Witness ==
  /\ last.op = "compareSemver"
  /\ last.semver.a = <<0, Dot, 0, Dot, 0>>
  /\ last.semver.b = <<1, Dot, 2, Dot, 3, Dot, 4>>
  /\ last.semver.threw

\* the major component of a spec version tag
SpecMajor(tag) == CASE tag = "1.0" -> 1 [] tag = "1.1" -> 1 [] tag = "2.0" -> 2

\* C16: of manifests that differ from a valid one in the spec tag only, the
\* schema rejects exactly those whose major component is not 1: '2.0' is
\* rejected and '1.1' is accepted.
C16_RejectsOnlyUnsupportedMajor ==
  ( /\ last.op = "validate"
    /\ mod.how = "field" /\ mod.field = "spec"
    /\ SchemaOk(StoredManifest(orig[1].out)) )
  => ( HasError(last.validation, "Invalid manifest")
         <=> SpecMajor(StoredManifest(buf).spec) # 1 )

\* signBundle(A, K) has returned buf for the packBundle output A
SignDone == orig # None /\ mod.how = "sign" /\ mod.threw = None

\* C17: for a packBundle output A, signed or not, and a non-empty key K,
\* signBundle(A, K) returns an archive with the file paths and bytes of A,
\* whose manifest passes the schema and whose signature is the HMAC under K
\* of the manifest hash it stores, so that validateBundle with K returns
\* valid = true and no signature error.
C17_SignedArchiveValidates ==
  /\ ( orig # None /\ mod.how = "sign" ) => mod.threw = None
  /\ SignDone
       => /\ buf.files = orig[1].out.files
          /\ SchemaOk(StoredManifest(buf))
          /\ StoredManifest(buf).signature # None
          /\ StoredManifest(buf).signature[1].value
               = hmac(StoredManifest(buf).integrity.manifest_hash, mod.bump[1].signKey[1])
  /\ ( SignDone /\ last.op = "validate" /\ last.signKey = mod.bump[1].signKey )
       => /\ last.validation.valid
          /\ ~HasError(last.validation, "Signature verification failed")

\* the identifier the draft of the packBundle call supplies, if any
SuppliedId ==
  IF orig[1].opts.manifest.id # None /\ orig[1].opts.manifest.id[1] # ""
  THEN orig[1].opts.manifest.id ELSE None

\* C18: the manifest packBundle writes has the identifier its draft supplies,
\* which matches the pattern bundle_<uuid>, and a fresh identifier only where
\* the draft supplies none; signBundle, which re-packs an unpacked manifest,
\* returns an archive with the identifier of the one it was given.
C18_SuppliedIdIsKept ==
  /\ IsPackOutput
       => /\ SuppliedId # None
               => /\ StoredManifest(buf).id = SuppliedId[1]
                  /\ IdPattern(StoredManifest(buf).id)
          /\ SuppliedId = None
               => \E uuid \in Uuids : StoredManifest(buf).id = "bundle_" \o uuid
  /\ SignDone => StoredManifest(buf).id = StoredManifest(orig[1].out).id

\* buf cannot be opened, holds no manifest.json, or holds one that is not
\* JSON or fails the schema
ManifestUnusable ==
  \/ ~buf.zipOk
  \/ buf.manifest = None
  \/ ~buf.manifest[1].jsonOk
  \/ ~SchemaOk(buf.manifest[1].json)

FatalMessages == { "Not a valid ZIP file", "Missing manifest.json", "Invalid manifest" }

\* C19: where the container cannot be opened, holds no manifest.json, or
\* holds a manifest that cannot be parsed or fails the schema, validateBundle
\* returns valid = false with exactly one error, which names that defect, and
\* no warnings: the file, hash, signature, size and entry checks add nothing.
C19_EarlyReturnIsOneError ==
  ( Validated /\ ManifestUnusable )
  => /\ ~last.validation.valid
     /\ Len(last.validation.errors) = 1
     /\ last.validation.errors[1].msg \in FatalMessages
     /\ last.validation.errors[1].msg = "Not a valid ZIP file" <=> ~buf.zipOk
     /\ last.validation.errors[1].msg = "Missing manifest.json"
          <=> ( buf.zipOk /\ buf.manifest = None )
     /\ last.validation.warnings = <<>>

\* a signed archive that lost a file and whose manifest fails the schema,
\* validated without a key: the later checks had an error and a warning to add
C19_Witness ==
  /\ Validated
  /\ orig # None /\ buf.zipOk /\ buf.manifest # None /\ buf.manifest[1].jsonOk
  /\ ~SchemaOk(buf.manifest[1].json)
  /\ Len(buf.files) < Len(orig[1].out.files)
  /\ buf.manifest[1].json.signature # None
  /\ last.signKey = None

\* the errors of the last validation with this message about this path
ErrorsAbout(msg, p) ==
  { i \in 1..Len(last.validation.errors) :
      last.validation.errors[i] = Finding(msg, Some(p)) }

\* the errors of the last validation with this message, about any path
ErrorsSaying(msg) ==
  { i \in 1..Len(last.validation.errors) : last.validation.errors[i].msg = msg }

\* path -> hash, as the stored manifest records it
RecordedFiles == StoredManifest(buf).integrity.files

\* the stored manifest differs from the packed one in a field the hash covers
HashedFieldEdited ==
  [ StoredManifest(buf) EXCEPT !.signature = None ]
    # [ StoredManifest(orig[1].out) EXCEPT !.signature = None ]

\* C20: once the manifest is read, validateBundle reports, for every path
\* recorded in integrity.files, exactly one missing-file error if the archive
\* has no entry at that path and exactly one integrity-failure error if the
\* entry's bytes hash to another value, however many errors came before; the
\* manifest-hash and signature checks are made after any number of them.
C20_EveryRecordedPathIsExamined ==
  ( Validated /\ ~ManifestUnusable )
  => /\ \A i \in 1..Len(RecordedFiles) :
          LET p == RecordedFiles[i][1]
          IN  /\ Cardinality(ErrorsAbout("Missing file", p))
                   = IF ZipHas(buf, p) THEN 0 ELSE 1
              /\ Cardinality(ErrorsAbout("Integrity failure", p))
                   = IF ZipHas(buf, p) /\ sha256(ZipBytes(buf, p)) # RecordedFiles[i][2]
                     THEN 1 ELSE 0
     /\ Cardinality(ErrorsSaying("Missing file"))
          = Cardinality({ i \in 1..Len(RecordedFiles) : ~ZipHas(buf, RecordedFiles[i][1]) })
     /\ Cardinality(ErrorsSaying("Integrity failure"))
          = Cardinality({ i \in 1..Len(RecordedFiles) :
                           /\ ZipHas(buf, RecordedFiles[i][1])
                           /\ sha256(ZipBytes(buf, RecordedFiles[i][1])) # RecordedFiles[i][2] })
     /\ HasError(last.validation, "Manifest hash mismatch") <=> HashedFieldEdited
     /\ HasError(last.validation, "Signature verification failed")
          <=> /\ Truthy(last.signKey)
              /\ StoredManifest(buf).signature # None
              /\ StoredManifest(buf).signature[1].value
                   # hmac(StoredManifest(buf).integrity.manifest_hash, last.signKey[1])

\* one file missing, another with other bytes, a manifest field edited and
\* the wrong key: four errors in one result
C20_Witness ==
  /\ Validated /\ ~ManifestUnusable
  /\ Cardinality(ErrorsSaying("Missing file")) = 1
  /\ Cardinality(ErrorsSaying("Integrity failure")) = 1
  /\ HasError(last.validation, "Manifest hash mismatch")
  /\ HasError(last.validation, "Signature verification failed")
  /\ Len(last.validation.errors) = 4

\* the warnings of the last validation with this message
WarningsSaying(msg) ==
  { i \in 1..Len(last.validation.warnings) : last.validation.warnings[i].msg = msg }

\* the packed manifest declares an entry point at which the archive has no file
DanglingEntry ==
  /\ StoredManifest(buf).entry # None
  /\ StoredManifest(buf).entry[1] # ManifestPath
  /\ ~ObjHas(buf.files, StoredManifest(buf).entry[1])

Oversized == buf.length > LargeBundleBytes

\* C21: validateBundle of a packBundle output, made from a draft that
\* satisfies the schema, adds exactly one warning for an entry point that
\* names no file of the archive and exactly one for a buffer above the size
\* threshold, and no error for either: the result is valid.
C21_EntryAndSizeOnlyWarn ==
  ( IsPackOutput /\ last.op = "validate" /\ ValidInputs )
  => /\ last.validation.valid
     /\ last.validation.errors = <<>>
     /\ Cardinality(WarningsSaying("Entry point not found in bundle"))
          = IF DanglingEntry THEN 1 ELSE 0
     /\ Cardinality(WarningsSaying("Large bundle")) = IF Oversized THEN 1 ELSE 0

\* C22: in every archive packBundle returns, the keys of integrity.files are
\* exactly the paths of the stored files other than manifest.json, whatever
\* the input file list, one with a file at the path manifest.json included.
C22_IntegrityKeysAreStoredPaths ==
  IsPackOutput
  => Range(ObjKeys(StoredManifest(buf).integrity.files)) = Range(ObjKeys(buf.files))

\* bumpBundleVersion has returned buf
BumpDone == orig # None /\ mod.how = "bump" /\ mod.threw = None

\* C23: the archive bumpBundleVersion returns carries a signature block
\* exactly when a signKey argument was supplied, and the block's value is then
\* the HMAC under that key of the manifest hash the archive stores; a signed
\* archive bumped without a key comes back unsigned.
C23_BumpSignsIffKeySupplied ==
  BumpDone
  => /\ StoredManifest(buf).signature # None <=> mod.bump[1].signKey # None
     /\ StoredManifest(buf).signature # None
          => StoredManifest(buf).signature[1].value
               = hmac(StoredManifest(buf).integrity.manifest_hash, mod.bump[1].signKey[1])

\* the manifests unpackBundle hands to diffBundles
OldManifest == BundleManifestSchemaParse(StoredManifest(orig[1].out))
NewManifest == BundleManifestSchemaParse(StoredManifest(buf))

\* the records of manifestChanges about this field
ChangesOf(field) ==
  { i \in 1..Len(last.diff.diff.manifestChanges) :
      last.diff.diff.manifestChanges[i].field = field }

\* the value of a field as serialized, absent where the field is
Serialized(m, field) ==
  IF field \in OptionalFields /\ m[field] = None THEN None
  ELSE Some(IF field \in OptionalFields THEN m[field][1] ELSE m[field])

LastInputAt(p) ==
  LET files == orig[1].opts.files
      at    == { i \in 1..Len(files) : files[i].path = p }
  IN  files[CHOOSE i \in at : \A j \in at : j <= i]

InputPaths == { orig[1].opts.files[i].path : i \in 1..Len(orig[1].opts.files) }

\* entries of the archive stored under this path
EntriesAt(p) == { i \in 1..Len(buf.files) : buf.files[i][1] = p }

\* C25: packBundle accepts an input list in which two files share a path,
\* and the later file wins: the archive stores one entry for the path, with
\* the later file's bytes, integrity.files records the hash of those bytes,
\* and validateBundle of the archive returns valid = true.
C25_LastDuplicateWins ==
  ( /\ IsPackOutput
    /\ ~DistinctPaths(orig[1].opts.files)
    /\ NoManifestInput(orig[1].opts.files)
    /\ DraftSatisfiesSchema(orig[1].opts.manifest) )
  => /\ \A p \in InputPaths :
          /\ Cardinality(EntriesAt(p)) = 1
          /\ ObjGet(buf.files, p) = bufferOf(LastInputAt(p).content)
          /\ ObjGet(StoredManifest(buf).integrity.files, p)
               = sha256(bufferOf(LastInputAt(p).content))
     /\ ( last.op = "validate" /\ last.signKey = None ) => last.validation.valid

\* buf is a signed packBundle output from which the signature block was removed
SignatureStripped ==
  /\ orig # None
  /\ mod.how = "field" /\ mod.field = "signature"
  /\ StoredManifest(orig[1].out).signature # None
  /\ StoredManifest(buf).signature = None

\* C26: after the signature block is removed from a signed packBundle output
\* (made from a draft that satisfies the schema), validateBundle returns
\* valid = true with no error and no signature warning, with a verify key and
\* without one.
C26_StrippedSignatureStillValid ==
  ( SignatureStripped /\ ValidInputs /\ last.op = "validate" )
  => /\ last.validation.valid
     /\ last.validation.errors = <<>>
     /\ UnverifiedWarnings(last.validation) = {}

\* buf is a packBundle output plus one file, under a path that is neither
\* recorded in integrity.files nor the entry point
UnrecordedFileAdded ==
  /\ orig # None
  /\ mod.how = "add"
  /\ ~ObjHas(StoredManifest(buf).integrity.files, mod.path[1])
  /\ StoredManifest(buf).entry # mod.path

\* C27: after a file is added to a packBundle output (made from a draft that
\* satisfies the schema) under a path that integrity.files does not record and
\* that is not the entry point, validateBundle returns what it returns for the
\* output itself, valid = true; unpackBundle returns the file and diffBundles
\* against the output reports it as added.
C27_UnrecordedFileGoesUnnoticed ==
  ( UnrecordedFileAdded /\ ValidInputs )
  => /\ last.op = "validate"
          => /\ last.validation.valid
             /\ last.validation.errors = validateBundle(orig[1].out, last.signKey).errors
             /\ last.validation.warnings = validateBundle(orig[1].out, last.signKey).warnings
     /\ last.op = "unpack"
          => /\ last.unpack.threw = None
             /\ \E i \in 1..Len(last.unpack.files) :
                  last.unpack.files[i].path = mod.path[1]
     /\ last.op = "diff"
          => /\ last.diff.threw = None
             /\ \E i \in 1..Len(last.diff.diff.files) :
                  /\ last.diff.diff.files[i].path = mod.path[1]
                  /\ last.diff.diff.files[i].change = "added"

\* C28: over well-formed versions compareSemver is a total order: the two
\* directions are opposite, the result is 0 exactly for equal triples, and it
\* is transitive; every bump gives a strictly greater version, and the patch
\* bump is below the minor bump, which is below the major bump.
C28_CompareIsOrderAndBumpIncreases ==
  /\ last.op = "compare both ways"
       => /\ last.semver.results[1] = 0 - last.semver.results[2]
          /\ last.semver.results[1] = 0 <=> Triple(last.semver.a) = Triple(last.semver.b)
  /\ last.op = "compare three"
       => ( ( last.semver.results[1] <= 0 /\ last.semver.results[2] <= 0 )
            => /\ last.semver.results[3] <= 0
               /\ last.semver.results[3] = 0
                    => ( last.semver.results[1] = 0 /\ last.semver.results[2] = 0 ) )
  /\ last.op = "bump and compare" => last.semver.results = << 0 - 1 >>
  /\ last.op = "compare bumps" => last.semver.results = << 0 - 1, 0 - 1 >>

\* a push has been made, and the local database took the call that followed
Pushed == lastPush.id # 0 /\ lastPush.database

\* C29: a mutation pushed while the server is reachable is accepted by the
\* server's push handler, which applies it and answers with success, and it
\* is removed from the local queue; a mutation is removed only after a
\* success response, and otherwise its attempt counter goes up by one.
C29_PushedMutationIsAcceptedAndRemoved ==
  Pushed =>
    /\ lastPush.delivered
         => /\ Ok(lastPush.status)
            /\ lastPush.id \in applied
            /\ ~ lastPush.queued
    /\ ~ lastPush.queued => ( lastPush.delivered /\ Ok(lastPush.status) )
    /\ lastPush.queued => lastPush.attemptsAfter = lastPush.attemptsBefore + 1

Active(r) == runs[r].pc # "idle"

\* C30: at most one call of sync() is past its guard at a time; a call made
\* while isSyncing is true or while offline returns without sending a request
\* or changing the store; isSyncing is false after every run ends, and a run
\* that failed with an error left lastError set and did not advance
\* lastSyncedAt.
C30_OneRunAtATime ==
  /\ Cardinality({ r \in Runs : Active(r) }) <= 1
  /\ store.isSyncing <=> \E r \in Runs : Active(r)
  /\ lastEnd.how = "returned" => ( ~ lastEnd.sent /\ ~ lastEnd.changed )
  /\ lastEnd.how \in { "completed", "failed" } => ~ lastEnd.isSyncing
  /\ lastEnd.how = "failed"
       => ( lastEnd.lastError # None /\ ~ lastEnd.recorded )
====
